---- MODULE Spec2Model ----
(***************************************************************************)
(* Content-based movie recommender (TF-IDF + cosine similarity).           *)
(*                                                                         *)
(* Two engines are modelled:                                               *)
(*   - the Grok-backed engine (lib/recommendation-grok.ts, here            *)
(*     src/unnamed/part_003) with its one-hour corpus cache, its cached    *)
(*     TF-IDF matrix and its append-on-miss path, called concurrently;     *)
(*   - the local CSV engine (lib/recommendation.ts, src/unnamed/part_004). *)
(*                                                                         *)
(* Text is modelled as TLA+ strings over printable ASCII; numbers are      *)
(* fixed-point integers (see Math_log and cosineSimilarity).               *)
(***************************************************************************)
EXTENDS Integers, Sequences, FiniteSets, TLC

(***************************************************************************)
(* Strings                                                                 *)
(***************************************************************************)

\* Printable ASCII in code-unit order, as <<first code, characters>> runs
\* (the double quote, 34, and the backquote, 96, are left out).
AsciiRuns ==
  << <<32, " !">>,
     <<35, "#$%&'()*+,-./0123456789:;<=>?@ABCDEFGHIJKLMNOPQRSTUVWXYZ[\\]^_">>,
     <<97, "abcdefghijklmnopqrstuvwxyz{|}~">>,
     <<9, "\t\n">> >>

CharAt(s, i) == SubSeq(s, i, i)

\* UTF-16 code unit of a character (what Array.prototype.sort compares).
CodeTable ==
  UNION { { <<CharAt(AsciiRuns[r][2], i), AsciiRuns[r][1] + i - 1>> :
              i \in 1..Len(AsciiRuns[r][2]) } : r \in 1..Len(AsciiRuns) }

AsciiChars == { e[1] : e \in CodeTable }

CharCode == [c \in AsciiChars |-> (CHOOSE e \in CodeTable : e[1] = c)[2]]

CharOfCode(n) == (CHOOSE e \in CodeTable : e[2] = n)[1]

UpperChars == { c \in AsciiChars : CharCode[c] \in 65..90 }
LowerChars == { c \in AsciiChars : CharCode[c] \in 97..122 }
DigitChars == { c \in AsciiChars : CharCode[c] \in 48..57 }

\* The regular-expression classes \w and \s (ASCII part).
WordChars == UpperChars \cup LowerChars \cup DigitChars \cup {"_"}
SpaceChars == {" ", "\t", "\n"}

LowerOf == [c \in AsciiChars |-> IF c \in UpperChars THEN CharOfCode(CharCode[c] + 32) ELSE c]

LowerChar(c) == IF c \in AsciiChars THEN LowerOf[c] ELSE c

\* The strings are walked by position.
RECURSIVE lowerFrom(_, _)
lowerFrom(s, i) ==
  IF i > Len(s) THEN "" ELSE LowerChar(CharAt(s, i)) \o lowerFrom(s, i + 1)

toLowerCase(s) == lowerFrom(s, 1)

\* The first position from i on, and the last up to i, that holds no white
\* space
RECURSIVE firstNonSpace(_, _)
firstNonSpace(s, i) ==
  IF i <= Len(s) /\ CharAt(s, i) \in SpaceChars THEN firstNonSpace(s, i + 1) ELSE i

RECURSIVE lastNonSpace(_, _)
lastNonSpace(s, i) ==
  IF i >= 1 /\ CharAt(s, i) \in SpaceChars THEN lastNonSpace(s, i - 1) ELSE i

trimStart(s) == SubSeq(s, firstNonSpace(s, 1), Len(s))

trimEnd(s) == SubSeq(s, 1, lastNonSpace(s, Len(s)))

trim(s) == trimEnd(trimStart(s))

\* String.prototype.includes
includes(s, sub) ==
  \E i \in 0..(Len(s) - Len(sub)) : SubSeq(s, i + 1, i + Len(sub)) = sub

\* s < t in code-unit order (the default comparison of Array.prototype.sort).
RECURSIVE StrLess(_, _)
StrLess(s, t) ==
  IF t = "" THEN FALSE
  ELSE IF s = "" THEN TRUE
  ELSE LET a == CharCode[CharAt(s, 1)]
           b == CharCode[CharAt(t, 1)]
       IN  IF a # b THEN a < b
           ELSE StrLess(SubSeq(s, 2, Len(s)), SubSeq(t, 2, Len(t)))

\* Array.from(set).sort(): the elements of a set of strings in ascending order.
RECURSIVE insertString(_, _)
insertString(sorted, x) ==
  IF sorted = <<>> THEN <<x>>
  ELSE IF StrLess(x, Head(sorted)) THEN <<x>> \o sorted
  ELSE <<Head(sorted)>> \o insertString(Tail(sorted), x)

RECURSIVE SortStrings(_)
SortStrings(S) ==
  IF S = {} THEN <<>>
  ELSE LET x == CHOOSE y \in S : TRUE
       IN  insertString(SortStrings(S \ {x}), x)

Range(f) == { f[i] : i \in DOMAIN f }

(***************************************************************************)
(* Tokenizer and vocabulary                                                *)
(***************************************************************************)

\* text.replace(/[^\w\s]/g, ' ')
RECURSIVE replacePunct(_)
replacePunct(s) ==
  IF s = "" THEN ""
  ELSE LET c == CharAt(s, 1)
       IN  (IF c \in WordChars \cup SpaceChars THEN c ELSE " ")
             \o replacePunct(SubSeq(s, 2, Len(s)))

\* text.split(/\s+/): the pieces between maximal whitespace runs, empty
\* leading and trailing pieces included.
RECURSIVE splitFrom(_, _, _, _, _)
splitFrom(s, i, cur, acc, prevWs) ==
  IF i > Len(s) THEN Append(acc, cur)
  ELSE LET c == CharAt(s, i)
       IN  IF c \in SpaceChars
           THEN IF prevWs THEN splitFrom(s, i + 1, "", acc, TRUE)
                ELSE splitFrom(s, i + 1, "", Append(acc, cur), TRUE)
           ELSE splitFrom(s, i + 1, cur \o c, acc, FALSE)

splitWs(s) == splitFrom(s, 1, "", <<>>, FALSE)

\* words.filter(word => word.length > 2)
RECURSIVE filterLong(_)
filterLong(ws) ==
  IF ws = <<>> THEN <<>>
  ELSE (IF Len(Head(ws)) > 2 THEN <<Head(ws)>> ELSE <<>>) \o filterLong(Tail(ws))

tokenize(text) == filterLong(splitWs(replacePunct(toLowerCase(text))))

\* `${movie.title} ${movie.genre} ${movie.overview}`
combinedText(movie) == movie.title \o " " \o movie.genre \o " " \o movie.overview

combinedTexts(movies) == [i \in 1..Len(movies) |-> combinedText(movies[i])]

\* The tokens of all items collected in an array, neither deduplicated nor
\* sorted.
RECURSIVE allTokensFrom(_, _)
allTokensFrom(movies, i) ==
  IF i > Len(movies) THEN <<>>
  ELSE tokenize(combinedText(movies[i])) \o allTokensFrom(movies, i + 1)

buildVocabularyAsCollected(movies) == allTokensFrom(movies, 1)

\* buildVocabulary: the tokens of all items added to a Set, then
\* Array.from(vocabSet).sort()
buildVocabulary(movies) ==
  SortStrings(UNION { Range(tokenize(combinedText(movies[i]))) : i \in 1..Len(movies) })

(***************************************************************************)
(* Numbers.  A JavaScript number is modelled in fixed point:               *)
(*   - Math.log(p / q) in units of 1/LogScale (a table of ln 1 .. ln 12);  *)
(*   - a TF-IDF vector as [num, den]: entry k is num[k] / den, den being   *)
(*     tokens.length * LogScale for the whole vector (den = 1 for the zero *)
(*     vector of a document without tokens);                               *)
(*   - a cosine in units of 10^-ScoreDigits, a reported score in units of  *)
(*     10^-4 (four decimals).                                              *)
(***************************************************************************)

LogScale == 1000
ScoreDigits == 5

\* round(LogScale * ln n) for n = 1 .. 12
LnTable == <<0, 693, 1099, 1386, 1609, 1792, 1946, 2079, 2197, 2303, 2398, 2485>>

\* Math.log(p / q) for integers p, q >= 1
Math_log(p, q) == LnTable[p] - LnTable[q]

\* floor(sqrt(n))
RECURSIVE Isqrt(_)
Isqrt(n) ==
  IF n < 2 THEN n
  ELSE LET s == 2 * Isqrt(n \div 4)
       IN  IF (s + 1) * (s + 1) > n THEN s ELSE s + 1

\* Long division: with q = floor(a / b) and r = a mod b, k more decimal digits.
RECURSIVE LongDiv(_, _, _, _)
LongDiv(q, r, b, k) ==
  IF k = 0 THEN q
  ELSE LongDiv(10 * q + ((10 * r) \div b), (10 * r) % b, b, k - 1)

\* floor(a * 10^k / b) for a >= 0, b > 0
Scale10(a, b, k) == LongDiv(a \div b, a % b, b, k)

Abs(x) == IF x < 0 THEN -x ELSE x

RECURSIVE SumSeq(_)
SumSeq(xs) == IF xs = <<>> THEN 0 ELSE Head(xs) + SumSeq(Tail(xs))

(***************************************************************************)
(* TF-IDF and cosine similarity                                            *)
(***************************************************************************)

\* null / undefined: a nullable value is <<>> (absent) or <<v>> (present);
\* a vector that is not an array has den = 0.
None == <<>>
Some(v) == <<v>>
NoVector == [num |-> <<>>, den |-> 0]
IsArray(vec) == vec.den # 0

\* termFreq[word] || 0
termFreq(tokens, word) == Cardinality({ i \in 1..Len(tokens) : tokens[i] = word })

\* allDocuments.filter(doc => tokenize(doc).includes(word)).length, over the
\* documents' token lists
docCount(allTokens, word) ==
  Cardinality({ d \in 1..Len(allTokens) :
                  \E j \in 1..Len(allTokens[d]) : allTokens[d][j] = word })

\* The weights with idf = Math.log(N / df), without the 1 added to df
RECURSIVE weightsFromUnsmoothed(_, _, _, _)
weightsFromUnsmoothed(tokens, vocab, allTokens, k) ==
  IF k > Len(vocab) THEN <<>>
  ELSE << termFreq(tokens, vocab[k])
            * Math_log(Len(allTokens), docCount(allTokens, vocab[k])) >>
         \o weightsFromUnsmoothed(tokens, vocab, allTokens, k + 1)

\* vocabulary.map(word => tf * idf), from the k-th word on, as numerators
\* over the common denominator tokens.length
RECURSIVE weightsFrom(_, _, _, _)
weightsFrom(tokens, vocab, allTokens, k) ==
  IF k > Len(vocab) THEN <<>>
  ELSE << termFreq(tokens, vocab[k])
            * Math_log(Len(allTokens), docCount(allTokens, vocab[k]) + 1) >>
         \o weightsFrom(tokens, vocab, allTokens, k + 1)

RECURSIVE zeros(_)
zeros(n) == IF n = 0 THEN <<>> ELSE <<0>> \o zeros(n - 1)

\* The number that is not a number: what 0 / 0 and arithmetic on undefined give.
NaN == -999999999

\* calculateTfIdf without its test for a document without tokens: every tf
\* is 0 / 0.
calculateTfIdfUnguarded(tokens, vocab, allTokens) ==
  IF Len(tokens) = 0
  THEN [num |-> [k \in 1..Len(vocab) |-> NaN], den |-> 1]
  ELSE [num |-> weightsFrom(tokens, vocab, allTokens, 1), den |-> Len(tokens) * LogScale]

\* calculateTfIdf(document, vocabulary, allDocuments), the documents given by
\* their token lists (tokenize is applied once per document, by tfIdfRows)
calculateTfIdf(tokens, vocab, allTokens) ==
  IF Len(tokens) = 0
  THEN [num |-> zeros(Len(vocab)), den |-> 1]
  ELSE [num |-> weightsFrom(tokens, vocab, allTokens, 1), den |-> Len(tokens) * LogScale]

\* The cosine of two vectors in units of 10^-ScoreDigits.  The common
\* denominators of the two vectors cancel; Math.sqrt is taken to one decimal.
\* The loop runs over the positions of vec1: entries of vec2 beyond them are
\* not read, and an entry vec2 lacks is undefined, which makes the sums NaN.
cosineSimilarity(vec1, vec2) ==
  IF ~IsArray(vec1) \/ ~IsArray(vec2) THEN 0
  ELSE IF Len(vec2.num) < Len(vec1.num) THEN NaN
  ELSE LET n == Len(vec1.num)
           dotProduct == SumSeq([i \in 1..n |-> vec1.num[i] * vec2.num[i]])
           norm1 == SumSeq([i \in 1..n |-> vec1.num[i] * vec1.num[i]])
           norm2 == SumSeq([i \in 1..n |-> vec2.num[i] * vec2.num[i]])
           sqrt1 == Isqrt(100 * norm1)
           sqrt2 == Isqrt(100 * norm2)
       IN  IF norm1 = 0 \/ norm2 = 0 THEN 0
           ELSE LET q == Scale10(Scale10(10 * Abs(dotProduct), sqrt1, 3) * 10, sqrt2, ScoreDigits - 3)
                IN  IF dotProduct < 0 THEN -q ELSE q

\* parseFloat(score.toFixed(4)): to four decimals, halves away from zero
toFixed4(score) ==
  LET unit == 10
      r == (Abs(score) + unit \div 2) \div unit
  IN  IF score < 0 THEN -r ELSE r

(***************************************************************************)
(* Title resolution and ranking                                            *)
(***************************************************************************)

\* Array.prototype.find / findIndex, given which positions satisfy the
\* predicate: the first position that does, 0 when there is none (null, -1).
FirstIndex(hits) ==
  IF \E i \in DOMAIN hits : hits[i]
  THEN CHOOSE i \in DOMAIN hits : hits[i] /\ \A j \in 1..(i - 1) : ~hits[j]
  ELSE 0

\* (input || '').trim().toLowerCase()
normalizeTitle(input) == toLowerCase(trim(input))

\* The query compared as typed, neither trimmed nor lowercased
findMovieByTitleAsTyped(movies, title) ==
  LET Exact(i) == toLowerCase(trim(movies[i].title)) = title
      Partial(i) == includes(toLowerCase(trim(movies[i].title)), title)
      exact == FirstIndex([pos \in 1..Len(movies) |-> Exact(pos)])
  IN  IF title = "" THEN 0
      ELSE IF exact # 0 THEN exact
      ELSE FirstIndex([pos \in 1..Len(movies) |-> Partial(pos)])

\* Grok-backed engine: exact match first, then substring match.  The result
\* is the position of the item found in movies (0: null).
findMovieByTitle(movies, title) ==
  LET normalizedTitle == toLowerCase(trim(title))
      Exact(i) == toLowerCase(trim(movies[i].title)) = normalizedTitle
      Partial(i) == includes(toLowerCase(trim(movies[i].title)), normalizedTitle)
      exact == FirstIndex([pos \in 1..Len(movies) |-> Exact(pos)])
  IN  IF normalizedTitle = "" THEN 0
      ELSE IF exact # 0 THEN exact
      ELSE FirstIndex([pos \in 1..Len(movies) |-> Partial(pos)])

\* route.ts: the same two-stage match over the CSV corpus.
findBestCsvMatch(movies, query) ==
  LET q == normalizeTitle(query)
      Exact(i) == normalizeTitle(movies[i].title) = q
      Partial(i) == includes(normalizeTitle(movies[i].title), q)
      exact == FirstIndex([pos \in 1..Len(movies) |-> Exact(pos)])
  IN  IF q = "" THEN 0
      ELSE IF exact # 0 THEN exact
      ELSE FirstIndex([pos \in 1..Len(movies) |-> Partial(pos)])

\* matrix[i], undefined when the matrix has no such row
rowAt(matrix, i) == IF i \in 1..Len(matrix) THEN matrix[i] ELSE NoVector

\* The loop of getRecommendations (Grok-backed engine): every row but the
\* query's, rows the matrix lacks skipped, with its cosine to the query row.
RECURSIVE similaritiesFrom(_, _, _, _)
similaritiesFrom(movies, matrix, inputMovieIndex, i) ==
  IF i > Len(movies) THEN <<>>
  ELSE (IF i = inputMovieIndex
             \/ ~IsArray(rowAt(matrix, inputMovieIndex)) \/ ~IsArray(rowAt(matrix, i))
        THEN <<>>
        ELSE << [row |-> i,
                 score |-> cosineSimilarity(matrix[inputMovieIndex], matrix[i])] >>)
         \o similaritiesFrom(movies, matrix, inputMovieIndex, i + 1)

\* A sort that is not stable: x goes before the elements of its own score.
RECURSIVE insertBeforeEqual(_, _)
insertBeforeEqual(sorted, x) ==
  IF sorted = <<>> THEN <<x>>
  ELSE IF Head(sorted).score > x.score
       THEN <<Head(sorted)>> \o insertBeforeEqual(Tail(sorted), x)
       ELSE <<x>> \o sorted

\* One insertion of the stable sort: x goes after every element whose score
\* is not smaller than its own.
RECURSIVE insertByScore(_, _)
insertByScore(sorted, x) ==
  IF sorted = <<>> THEN <<x>>
  ELSE IF Head(sorted).score >= x.score
       THEN <<Head(sorted)>> \o insertByScore(Tail(sorted), x)
       ELSE <<x>> \o sorted

\* The comparator the other way round, (a, b) => a.score - b.score
RECURSIVE sortByScoreAscending(_)
sortByScoreAscending(xs) ==
  IF xs = <<>> THEN <<>>
  ELSE LET x == xs[Len(xs)]
           rest == sortByScoreAscending(SubSeq(xs, 1, Len(xs) - 1))
           smaller == { k \in 1..Len(rest) : rest[k].score <= x.score }
       IN  SubSeq(rest, 1, Cardinality(smaller)) \o <<x>>
             \o SubSeq(rest, Cardinality(smaller) + 1, Len(rest))

\* similarities.sort((a, b) => b.score - a.score): descending, stable
RECURSIVE sortByScore(_)
sortByScore(xs) ==
  IF xs = <<>> THEN <<>>
  ELSE insertByScore(sortByScore(SubSeq(xs, 1, Len(xs) - 1)), xs[Len(xs)])

\* .slice(0, numRecommendations)
slice(xs, n) == SubSeq(xs, 1, IF n < Len(xs) THEN n ELSE Len(xs))

\* .map(item => ({...item.movie, similarity_score: parseFloat(item.score.toFixed(4))}))
\* row and score are kept beside the reported fields to state the properties.
toResults(movies, xs) ==
  [k \in 1..Len(xs) |->
     [movie |-> movies[xs[k].row], row |-> xs[k].row, score |-> xs[k].score,
      similarity_score |-> toFixed4(xs[k].score)]]

\* combinedTexts.map(doc => tokenize(doc)), from the i-th document on
RECURSIVE tokenizeFrom(_, _)
tokenizeFrom(docs, i) ==
  IF i > Len(docs) THEN <<>> ELSE <<tokenize(docs[i])>> \o tokenizeFrom(docs, i + 1)

RECURSIVE rowsFrom(_, _, _)
rowsFrom(allTokens, vocab, i) ==
  IF i > Len(allTokens) THEN <<>>
  ELSE <<calculateTfIdf(allTokens[i], vocab, allTokens)>> \o rowsFrom(allTokens, vocab, i + 1)

\* combinedTexts.map(doc => calculateTfIdf(doc, vocabArray, combinedTexts))
tfIdfRows(movies, vocabArray) == rowsFrom(tokenizeFrom(combinedTexts(movies), 1), vocabArray, 1)

(***************************************************************************)
(* The data source (lib/grok-api.ts)                                       *)
(***************************************************************************)

\* What the Grok API (or the sample fallback) may answer: parsed JSON arrays
\* of movies.  movie_id 0 stands for a missing movie_id.  Titles are never
\* blank (GrokMovie.title is required).
Scenario ==
  << [movie_id |-> 0, title |-> "Inception", genre |-> "Action Sci-Fi",
      overview |-> "a thief steals secrets"],
     [movie_id |-> 0, title |-> "The Thief", genre |-> "Crime",
      overview |-> "a thief steals jewels"],
     [movie_id |-> 0, title |-> "Romance Story", genre |-> "Romance",
      overview |-> "two people fall in love"] >>

Remake ==
  << [movie_id |-> 2, title |-> " Heat ", genre |-> "Crime,Drama",
      overview |-> "a thief robs banks"],
     [movie_id |-> 0, title |-> "Inception", genre |-> "Sci-Fi",
      overview |-> "dreams steal secrets"],
     [movie_id |-> 0, title |-> "Titanic", genre |-> "Romance",
      overview |-> "love on a ship"] >>

Single ==
  << [movie_id |-> 0, title |-> "Heat ", genre |-> "Crime",
      overview |-> "a thief robs banks"] >>

\* The answers to the list prompt and to the single-movie prompt
GrokAnswers == { Scenario, Remake, <<>> }
SearchAnswers == { Single, <<>> }

\* genre.replace(/,/g, ' ')
RECURSIVE replaceCommas(_)
replaceCommas(s) ==
  IF s = "" THEN ""
  ELSE (IF CharAt(s, 1) = "," THEN " " ELSE CharAt(s, 1))
         \o replaceCommas(SubSeq(s, 2, Len(s)))

\* fetchMoviesFromGrok on a parsed array: movie_id defaults to index + 1
fetchMoviesFromGrok(parsed) ==
  [i \in 1..Len(parsed) |->
     [parsed[i] EXCEPT !.movie_id = IF parsed[i].movie_id # 0 THEN parsed[i].movie_id ELSE i,
                       !.genre = replaceCommas(parsed[i].genre)]]

\* searchMovieInGrok: the position of the exact normalized match in the
\* fetched list, 0 when there is none (null)
searchMovieInGrok(fetched, movieTitle) ==
  LET normalized == toLowerCase(trim(movieTitle))
      Match(i) == toLowerCase(trim(fetched[i].title)) = normalized
  IN  FirstIndex([pos \in 1..Len(fetched) |-> Match(pos)])

(***************************************************************************)
(* The engines' state                                                      *)
(***************************************************************************)

Calls == {"c1", "c2"}
Titles == {"Inception", " heat"}
TopNs == {2, 50}
Engines == {"grok", "csv"}

\* Date.now() advances in steps of half an hour, MaxTicks times at most.
TickMs == 30 * 60 * 1000
MaxTicks == 2
StartTime == 60 * 60 * 1000

CACHE_DURATION == 60 * 60 * 1000
GROK_CACHE_DURATION == 60 * 60 * 1000

VARIABLES
  engine,           \* which recommender module this process runs
  now,              \* Date.now()
  heap,             \* the Movie[] arrays in use, oldest first
  moviesCache,      \* recommender: let moviesCache
  tfidfMatrix,      \* recommender: let tfidfMatrix
  vocabulary,       \* recommender: let vocabulary
  cacheTimestamp,   \* recommender: let cacheTimestamp
  grokMoviesCache,  \* grok-api: let moviesCache
  grokTimestamp,    \* grok-api: let cacheTimestamp
  calls,            \* the getRecommendations calls in flight
  returned,         \* the call that has just settled, with what it ranked
  lastAppend,       \* history: title and list of the latest call, if it appended
  imdbCache,        \* imdb-suggest: const cache (a Map)
  imdbCalls,        \* the imdbSuggestSearch calls in flight, one per caller
  enrich,           \* the enrichment call: its arrays, its queue, its workers
  request           \* the GET /api/recommend request being served

engineVars == << engine, now, heap, moviesCache, tfidfMatrix, vocabulary, cacheTimestamp,
                 grokMoviesCache, grokTimestamp, calls, returned, lastAppend >>

imdbVars == << imdbCache, imdbCalls, enrich, request >>

vars == << engine, now, heap, moviesCache, tfidfMatrix, vocabulary, cacheTimestamp,
           grokMoviesCache, grokTimestamp, calls, returned, lastAppend,
           imdbCache, imdbCalls, enrich, request >>

\* The callers of imdbSuggestSearch: the workers of an enrichment call, at
\* most MaxWorkers of them.
MaxWorkers == 2
Workers == 1..MaxWorkers

\* pc: "idle", "fetch" (suspended at await fetch(url)) or "settled" (the
\* promise is resolved with value, or rejected when raised); fetched: an
\* HTTP call was made; outcome: how it ended.
NoLookup == [pc |-> "idle", query |-> "", normalized |-> "", url |-> "", value |-> <<>>,
             raised |-> FALSE, fetched |-> FALSE, outcome |-> "", cached |-> FALSE]

\* No enrichment call has been made.
NoEnrichment == [fn |-> "none", status |-> "none", items |-> <<>>, out |-> <<>>,
                 queue |-> <<>>, pc |-> [w \in Workers |-> "off"],
                 idx |-> [w \in Workers |-> 0], taken |-> <<>>, looked |-> <<>>,
                 writers |-> <<>>]

\* new Map(): no entry
EmptyMap == [k \in {} |-> 0]

\* No request is being served.  pc: "idle", "search" (suspended at await
\* imdbSuggestSearch), "enrich" (at await enrichTitlesWithImdb) or
\* "responded"; title, num, industriesParam: the query parameters, absent or
\* a string; strategy: the branch the recommendations came from; limit: what
\* was passed to searchMoviesByKeyword; topN: wantTopN where it was passed
\* on or used to cut a list; status: the HTTP status of the response.
NoRequest == [pc |-> "idle", title |-> <<>>, num |-> <<>>, industriesParam |-> <<>>,
              numRecs |-> 0, industries |-> <<>>, csvMatch |-> <<>>, candidates |-> 0,
              strategy |-> "", limit |-> <<>>, topN |-> <<>>, recommendations |-> <<>>,
              searchedTitle |-> "", status |-> 0, served |-> 0]

ImdbInit ==
  /\ imdbCache = EmptyMap
  /\ imdbCalls = [w \in Workers |-> NoLookup]
  /\ enrich = NoEnrichment
  /\ request = NoRequest

\* Arrays are objects: a variable holds the identity of a list, its position
\* in heap (0: null), and heap gives the list's present contents.
\*
\* pc: where the call is suspended; movies: the list loadMovies gave it;
\* grokMovies: what getAllMoviesFromGrok gave its loadMovies.
IdleCall == [pc |-> "idle", movieTitle |-> "", movies |-> 0, grokMovies |-> <<>>]

NoOut == [kind |-> "none", movieTitle |-> "", numRecommendations |-> 0, movies |-> 0,
          recs |-> <<>>, inputMovie |-> 0, inputMovieIndex |-> 0,
          appended |-> FALSE, rebuilt |-> FALSE, lookups |-> 0]

NoAppend == [movieTitle |-> "", movies |-> 0]

Init ==
  /\ engine \in Engines
  /\ now = StartTime
  /\ heap = <<>>
  /\ moviesCache = 0
  /\ tfidfMatrix = None
  /\ vocabulary = None
  /\ cacheTimestamp = 0
  /\ grokMoviesCache = None
  /\ grokTimestamp = 0
  /\ calls = [p \in Calls |-> IdleCall]
  /\ returned = NoOut
  /\ lastAppend = NoAppend
  /\ ImdbInit

\* The lists some variable still refers to; the others are garbage.
Live(cache, cs, out) == ({cache, out.movies} \cup { cs[p].movies : p \in Calls }) \ {0}

\* The position of list l once the garbage is gone
Rank(l, live) == IF l \in live THEN Cardinality({ k \in live : k <= l }) ELSE 0

RECURSIVE Compact(_, _, _)
Compact(h, live, l) ==
  IF l > Len(h) THEN <<>>
  ELSE (IF l \in live THEN <<h[l]>> ELSE <<>>) \o Compact(h, live, l + 1)

\* The state with heap h and the references cache, cs, out, la after garbage
\* collection.
Collected(h, cache, cs, out, la) ==
  LET live == Live(cache, cs, out)
  IN  /\ heap' = Compact(h, live, 1)
      /\ moviesCache' = Rank(cache, live)
      /\ calls' = [p \in Calls |-> [cs[p] EXCEPT !.movies = Rank(@, live)]]
      /\ returned' = [out EXCEPT !.movies = Rank(@, live)]
      /\ lastAppend' = IF la.movies \in live
                       THEN [la EXCEPT !.movies = Rank(@, live)] ELSE NoAppend

\* The comparison with <= for <
cacheValidInclusive(cache, timestamp, time) ==
  cache # 0 /\ time - timestamp <= CACHE_DURATION

\* The comparison of getAllMoviesFromGrok with <= for <
grokCacheValidInclusive(cache, timestamp, time) ==
  cache # None /\ time - timestamp <= GROK_CACHE_DURATION

\* moviesCache && Date.now() - cacheTimestamp < CACHE_DURATION  (an empty
\* array is truthy)
cacheValid(cache, timestamp, time) == cache # 0 /\ time - timestamp < CACHE_DURATION
grokCacheValid(cache, timestamp, time) ==
  cache # None /\ time - timestamp < GROK_CACHE_DURATION

\* The object loadMovies makes of the GrokMovie at index (index + 1 = i)
toMovie(movie, i) ==
  [movie_id |-> IF movie.movie_id # 0 THEN movie.movie_id ELSE i,
   title |-> trim(movie.title), genre |-> trim(movie.genre),
   overview |-> trim(movie.overview)]
toMovies(grokMovies) == [i \in 1..Len(grokMovies) |-> toMovie(grokMovies[i], i)]

\* const newMovie = { movie_id: movies.length + 1, title: grokMovie.title.trim(), ... }
newMovie(movies, grokMovie) ==
  [movie_id |-> Len(movies) + 1, title |-> trim(grokMovie.title),
   genre |-> trim(grokMovie.genre), overview |-> trim(grokMovie.overview)]

\* movies.unshift(newMovie)
unshift(movies, movie) == <<movie>> \o movies

\* movies.push(newMovie)
push(movies, movie) == Append(movies, movie)

(***************************************************************************)
(* buildTfIdfMatrix and the ranking step of getRecommendations             *)
(***************************************************************************)

\* The test without the comparison of the lengths
cacheUsableAnyLength(movies, items, matrix, vocab) ==
  /\ matrix # None
  /\ vocab # None
  /\ moviesCache = movies

\* Grok-backed engine: tfidfMatrix && vocabulary && moviesCache === movies
\* && tfidfMatrix.length === movies.length.  movies is the identity of the
\* list, items its contents.
cacheUsable(movies, items, matrix, vocab) ==
  /\ matrix # None
  /\ vocab # None
  /\ moviesCache = movies
  /\ Len(matrix[1]) = Len(items)

\* CSV engine: tfidfMatrix && vocabulary
csvCacheUsable(matrix, vocab) == matrix # None /\ vocab # None

\* buildTfIdfMatrix: what it throws or returns, and what it leaves in the
\* module's tfidfMatrix and vocabulary.
buildTfIdfMatrix(items, matrix, vocab, usable) ==
  IF Len(items) = 0
  THEN [error |-> TRUE, matrix |-> matrix, vocabulary |-> vocab, rebuilt |-> FALSE]
  ELSE IF usable
  THEN [error |-> FALSE, matrix |-> matrix, vocabulary |-> vocab, rebuilt |-> FALSE]
  ELSE LET vocabArray == buildVocabulary(items)
       IN  [error |-> FALSE, matrix |-> Some(tfIdfRows(items, vocabArray)),
            vocabulary |-> Some(vocabArray), rebuilt |-> TRUE]

\* Grok-backed engine: movies.findIndex(m => m.title.toLowerCase() ===
\* inputMovie.title.toLowerCase())
findInputMovieIndex(items, inputMovie) ==
  LET Same(i) == toLowerCase(items[i].title) = toLowerCase(items[inputMovie].title)
  IN  FirstIndex([pos \in 1..Len(items) |-> Same(pos)])

\* CSV engine: movies.findIndex(m => m.movie_id === inputMovie.movie_id)
csvFindInputMovieIndex(items, inputMovie) ==
  LET Same(i) == items[i].movie_id = items[inputMovie].movie_id
  IN  FirstIndex([pos \in 1..Len(items) |-> Same(pos)])

Settled(kind, movieTitle, movies, n, recs, inputMovie, inputMovieIndex, appended, rebuilt, lookups) ==
  [kind |-> kind, movieTitle |-> movieTitle, numRecommendations |-> n,
   movies |-> movies, recs |-> recs, inputMovie |-> inputMovie,
   inputMovieIndex |-> inputMovieIndex, appended |-> appended, rebuilt |-> rebuilt,
   lookups |-> lookups]

\* The matrix and the vocabulary invalidated before the throw
ThrowInvalidating(p, kind, lookups) ==
  /\ returned' = Settled(kind, calls[p].movieTitle, calls[p].movies, 0, <<>>, 0, 0,
                         FALSE, FALSE, lookups)
  /\ calls' = [calls EXCEPT ![p] = IdleCall]
  /\ lastAppend' = NoAppend
  /\ tfidfMatrix' = None
  /\ vocabulary' = None
  /\ UNCHANGED << heap, moviesCache >>

\* The call throws: nothing but its own frame goes away.
Throw(p, kind, lookups) ==
  /\ returned' = Settled(kind, calls[p].movieTitle, calls[p].movies, 0, <<>>, 0, 0,
                         FALSE, FALSE, lookups)
  /\ calls' = [calls EXCEPT ![p] = IdleCall]
  /\ lastAppend' = NoAppend
  /\ UNCHANGED << heap, moviesCache, tfidfMatrix, vocabulary >>

\* From `const { matrix } = buildTfIdfMatrix(movies)` to the return, for
\* the list movies whose contents are now items.
BuildAndRank(p, movies, items, matrix, vocab, inputMovie, appended, lookups) ==
  \E built \in { buildTfIdfMatrix(items, matrix, vocab,
                                  cacheUsable(movies, items, matrix, vocab)) },
     inputMovieIndex \in { findInputMovieIndex(items, inputMovie) } :
  \E ranked \in { IF built.error \/ inputMovieIndex = 0 THEN <<>>
                  ELSE sortByScore(similaritiesFrom(items, built.matrix[1],
                                                    inputMovieIndex, 1)) } :
      /\ heap' = [heap EXCEPT ![movies] = items]
      /\ tfidfMatrix' = built.matrix
      /\ vocabulary' = built.vocabulary
      /\ calls' = [calls EXCEPT ![p] = IdleCall]
      /\ lastAppend' = IF appended
                       THEN [movieTitle |-> calls[p].movieTitle, movies |-> movies]
                       ELSE NoAppend
      /\ UNCHANGED moviesCache
      /\ IF built.error \/ inputMovieIndex = 0
         THEN returned' = Settled("error", calls[p].movieTitle, movies, 0, <<>>, inputMovie,
                                  inputMovieIndex, appended, built.rebuilt, lookups)
         ELSE \E n \in TopNs :
                returned' = Settled("ok", calls[p].movieTitle, movies, n,
                                    toResults(items, slice(ranked, n)), inputMovie,
                                    inputMovieIndex, appended, built.rebuilt, lookups)

(***************************************************************************)
(* The Grok-backed engine: loadMovies and getRecommendations, one action   *)
(* per stretch of code between two awaits                                  *)
(***************************************************************************)

Quiet == returned.kind = "none"

\* getRecommendations is called and runs loadMovies up to its first await:
\* a valid memorized corpus is returned as it is; otherwise
\* getAllMoviesFromGrok answers from its own cache or goes to the API.
\* (A new call takes the first free frame.)
Call(p, movieTitle) ==
  /\ engine = "grok"
  /\ Quiet
  /\ calls[p].pc = "idle"
  /\ \A q \in Calls : StrLess(q, p) => calls[q].pc # "idle"
  /\ LET started == [IdleCall EXCEPT !.movieTitle = movieTitle]
     IN  calls' = [calls EXCEPT ![p] =
           IF cacheValid(moviesCache, cacheTimestamp, now)
           THEN [started EXCEPT !.pc = "loaded", !.movies = moviesCache]
           ELSE IF grokCacheValid(grokMoviesCache, grokTimestamp, now)
           THEN [started EXCEPT !.pc = "gotAll", !.grokMovies = grokMoviesCache[1]]
           ELSE [started EXCEPT !.pc = "fetchAll"]]
  /\ UNCHANGED << engine, now, heap, moviesCache, tfidfMatrix, vocabulary, cacheTimestamp,
                  grokMoviesCache, grokTimestamp, returned, lastAppend >>
  /\ UNCHANGED imdbVars

\* moviesCache = await fetchMoviesFromGrok(); cacheTimestamp = Date.now()
FetchAllReturns(p, parsed) ==
  /\ Quiet
  /\ calls[p].pc = "fetchAll"
  /\ grokMoviesCache' = Some(fetchMoviesFromGrok(parsed))
  /\ grokTimestamp' = now
  /\ calls' = [calls EXCEPT ![p].pc = "gotAll", ![p].grokMovies = fetchMoviesFromGrok(parsed)]
  /\ UNCHANGED << engine, now, heap, moviesCache, tfidfMatrix, vocabulary, cacheTimestamp,
                  returned, lastAppend >>
  /\ UNCHANGED imdbVars

\* loadMovies after `await getAllMoviesFromGrok()`: a new list replaces the
\* memorized corpus.
LoadMoviesResumes(p) ==
  /\ Quiet
  /\ calls[p].pc = "gotAll"
  /\ LET l == Len(heap) + 1
         items == toMovies(calls[p].grokMovies)
         cs == [calls EXCEPT ![p].pc = "loaded", ![p].movies = l, ![p].grokMovies = <<>>]
     IN  Collected(Append(heap, items), l, cs, returned, lastAppend)
  /\ cacheTimestamp' = now
  /\ UNCHANGED << engine, now, tfidfMatrix, vocabulary, grokMoviesCache, grokTimestamp >>
  /\ UNCHANGED imdbVars

\* getRecommendations after `await loadMovies()`, up to the external lookup
\* or to its end.
AfterLoad(p) ==
  /\ Quiet
  /\ calls[p].pc = "loaded"
  /\ LET movies == calls[p].movies
         items == heap[movies]
         inputMovie == findMovieByTitle(items, calls[p].movieTitle)
     IN  IF Len(items) = 0 THEN Throw(p, "empty", 0)
         ELSE IF inputMovie # 0
         THEN BuildAndRank(p, movies, items, tfidfMatrix, vocabulary, inputMovie, FALSE, 0)
         ELSE /\ calls' = [calls EXCEPT ![p].pc = "search"]
              /\ UNCHANGED << heap, moviesCache, tfidfMatrix, vocabulary, returned,
                              lastAppend >>
  /\ UNCHANGED << engine, now, cacheTimestamp, grokMoviesCache, grokTimestamp >>
  /\ UNCHANGED imdbVars

\* getRecommendations after `await searchMovieInGrok(movieTitle)`
SearchReturns(p, parsed) ==
  /\ Quiet
  /\ calls[p].pc = "search"
  /\ LET movies == calls[p].movies
         fetched == fetchMoviesFromGrok(parsed)
         grokMovie == searchMovieInGrok(fetched, calls[p].movieTitle)
     IN  IF grokMovie # 0
         THEN BuildAndRank(p, movies, push(heap[movies], newMovie(heap[movies], fetched[grokMovie])),
                           None, None, Len(heap[movies]) + 1, TRUE, 1)
         ELSE Throw(p, "notfound", 1)
  /\ UNCHANGED << engine, now, cacheTimestamp, grokMoviesCache, grokTimestamp >>
  /\ UNCHANGED imdbVars

\* The caller has the outcome; lists nobody refers to any more are dropped.
Return ==
  /\ ~Quiet
  /\ Collected(heap, moviesCache, calls, NoOut, lastAppend)
  /\ UNCHANGED << engine, now, tfidfMatrix, vocabulary, cacheTimestamp,
                  grokMoviesCache, grokTimestamp >>
  /\ UNCHANGED imdbVars

Tick ==
  /\ Quiet
  /\ now < StartTime + MaxTicks * TickMs
  /\ now' = now + TickMs
  /\ UNCHANGED << engine, heap, moviesCache, tfidfMatrix, vocabulary, cacheTimestamp,
                  grokMoviesCache, grokTimestamp, calls, returned, lastAppend >>
  /\ UNCHANGED imdbVars

(***************************************************************************)
(* The CSV engine: loadMovies and getRecommendations are synchronous       *)
(***************************************************************************)

\* What csv-parse may read from the dataset file (movie_id is unique in it;
\* release_year 0 stands for a year that parseInt does not read, NaN).
CsvDataset ==
  << [movie_id |-> 11, title |-> "Inception", industry |-> "Hollywood",
      genre |-> "Action Sci-Fi", release_year |-> 2010,
      overview |-> "a thief steals secrets"],
     [movie_id |-> 12, title |-> " The Thief", industry |-> "Hollywood",
      genre |-> "Crime", release_year |-> 1981, overview |-> "a thief steals jewels"],
     [movie_id |-> 13, title |-> "Romance Story", industry |-> " Bollywood",
      genre |-> "Romance", release_year |-> 2015, overview |-> "two people fall in love"],
     [movie_id |-> 14, title |-> "Heat ", industry |-> "Hollywood",
      genre |-> "Crime Drama", release_year |-> 1995, overview |-> "a thief robs banks "] >>

CsvFiles == { CsvDataset, <<>> }

\* records.map(record => ({ movie_id: parseInt(record.movie_id), title: record.title.trim(), ... }))
RECURSIVE csvMoviesFrom(_, _)
csvMoviesFrom(records, i) ==
  IF i > Len(records) THEN <<>>
  ELSE << [movie_id |-> records[i].movie_id, title |-> trim(records[i].title),
           industry |-> trim(records[i].industry), genre |-> trim(records[i].genre),
           release_year |-> records[i].release_year,
           overview |-> trim(records[i].overview)] >>
         \o csvMoviesFrom(records, i + 1)

csvToMovies(records) == csvMoviesFrom(records, 1)

\* CSV engine: movies.find(movie => movie.title.toLowerCase() === title.trim().toLowerCase())
csvFindMovieByTitle(movies, title) ==
  LET normalizedTitle == toLowerCase(trim(title))
      Exact(i) == toLowerCase(movies[i].title) = normalizedTitle
  IN  FirstIndex([pos \in 1..Len(movies) |-> Exact(pos)])

\* The loop of the CSV engine: every row but the query's
RECURSIVE csvSimilaritiesFrom(_, _, _, _)
csvSimilaritiesFrom(movies, matrix, inputMovieIndex, i) ==
  IF i > Len(movies) THEN <<>>
  ELSE (IF i = inputMovieIndex THEN <<>>
        ELSE << [row |-> i,
                 score |-> cosineSimilarity(matrix[inputMovieIndex], rowAt(matrix, i))] >>)
         \o csvSimilaritiesFrom(movies, matrix, inputMovieIndex, i + 1)

\* One whole call of the CSV engine's getRecommendations; records is what
\* the file holds, read only if no corpus is memorized yet.
CsvGetRecommendations(movieTitle, records) ==
  /\ engine = "csv"
  /\ Quiet
  /\ \E h \in { IF moviesCache # 0 THEN heap ELSE <<csvToMovies(records)>> } :
     \E inputMovie \in { csvFindMovieByTitle(h[1], movieTitle) } :
       /\ heap' = h
       /\ moviesCache' = 1
       /\ IF Len(h[1]) = 0 \/ inputMovie = 0
          THEN /\ returned' = Settled(IF Len(h[1]) = 0 THEN "empty" ELSE "notfound",
                                      movieTitle, 1, 0, <<>>, 0, 0, FALSE, FALSE, 0)
               /\ UNCHANGED << tfidfMatrix, vocabulary >>
          ELSE \E built \in { buildTfIdfMatrix(h[1], tfidfMatrix, vocabulary,
                                               csvCacheUsable(tfidfMatrix, vocabulary)) },
                  inputMovieIndex \in { csvFindInputMovieIndex(h[1], inputMovie) } :
                 /\ tfidfMatrix' = built.matrix
                 /\ vocabulary' = built.vocabulary
                 /\ IF inputMovieIndex = 0 \/ ~IsArray(rowAt(built.matrix[1], inputMovieIndex))
                    THEN returned' = Settled("error", movieTitle, 1, 0, <<>>, inputMovie,
                                             inputMovieIndex, FALSE, built.rebuilt, 0)
                    ELSE \E ranked \in { sortByScore(csvSimilaritiesFrom(
                                           h[1], built.matrix[1], inputMovieIndex, 1)) },
                            n \in TopNs :
                           returned' = Settled("ok", movieTitle, 1, n,
                                               toResults(h[1], slice(ranked, n)), inputMovie,
                                               inputMovieIndex, FALSE, built.rebuilt, 0)
  /\ UNCHANGED << engine, now, cacheTimestamp, grokMoviesCache, grokTimestamp, calls,
                  lastAppend >>
  /\ UNCHANGED imdbVars

CsvStep == \E movieTitle \in Titles, records \in CsvFiles : CsvGetRecommendations(movieTitle, records)

(***************************************************************************)
(* Specifications                                                          *)
(***************************************************************************)

Step(p) ==
  \/ \E movieTitle \in Titles : Call(p, movieTitle)
  \/ \E parsed \in GrokAnswers : FetchAllReturns(p, parsed)
  \/ LoadMoviesResumes(p)
  \/ AfterLoad(p)
  \/ \E parsed \in SearchAnswers : SearchReturns(p, parsed)

\* Any number of calls in flight, up to the frames there are.
Next == Tick \/ Return \/ CsvStep \/ \E p \in Calls : Step(p)

Spec == Init /\ [][Next]_vars

\* One call at a time: a call begins only when no other is in flight.
NoneInFlight == \A q \in Calls : calls[q].pc = "idle"

SeqStep(p) ==
  \/ NoneInFlight /\ \E movieTitle \in Titles : Call(p, movieTitle)
  \/ \E parsed \in GrokAnswers : FetchAllReturns(p, parsed)
  \/ LoadMoviesResumes(p)
  \/ AfterLoad(p)
  \/ \E parsed \in SearchAnswers : SearchReturns(p, parsed)

SeqNext == Tick \/ Return \/ CsvStep \/ \E p \in Calls : SeqStep(p)

SpecSeq == Init /\ [][SeqNext]_vars

(***************************************************************************)
(* The title resolvers as functions: a corpus and a query are drawn, the   *)
(* resolvers of the Grok-backed engine and of the route are applied        *)
(***************************************************************************)

ResolveTitles ==
  { <<"Inception", "The Thief", "Romance Story">>,
    <<"The Thief", "Thief", "thief">>,
    <<" Heat ", "heat", "Wheat">>,
    <<"Titanic (1997)", "TITANIC", "Titanic">>,
    <<"Up", "Upside Down", "up">>,
    <<"Story", "Romance Story">>,
    <<"Inception">>,
    <<>> }

ResolveQueries ==
  { "Inception", "inception", " INCEPTION ", "thief", "Thief ", "the", "heat", " HEAT",
    "titanic", "up", "story", "xyz", "", "  " }

titled(titles) ==
  [i \in 1..Len(titles) |->
     [movie_id |-> i, title |-> titles[i], genre |-> "", overview |-> ""]]

ResolveInit ==
  /\ engine = "none"
  /\ now = StartTime
  /\ \E titles \in ResolveTitles : heap = <<titled(titles)>>
  /\ moviesCache = 1
  /\ tfidfMatrix = None
  /\ vocabulary = None
  /\ cacheTimestamp = StartTime
  /\ grokMoviesCache = None
  /\ grokTimestamp = 0
  /\ calls = [p \in Calls |-> IdleCall]
  /\ returned = NoOut
  /\ lastAppend = NoAppend
  /\ ImdbInit

\* found / csvFound: the position of the item findMovieByTitle and
\* findBestCsvMatch return (0: null)
Resolve(query) ==
  /\ Quiet
  /\ returned' = [kind |-> "resolved", movieTitle |-> query, movies |-> moviesCache,
                  found |-> findMovieByTitle(heap[moviesCache], query),
                  csvFound |-> findBestCsvMatch(heap[moviesCache], query)]
  /\ UNCHANGED << engine, now, heap, moviesCache, tfidfMatrix, vocabulary, cacheTimestamp,
                  grokMoviesCache, grokTimestamp, calls, lastAppend >>
  /\ UNCHANGED imdbVars

ResolveNext == Return \/ \E query \in ResolveQueries : Resolve(query)

SpecResolve == ResolveInit /\ [][ResolveNext]_vars

(***************************************************************************)
(* Properties                                                              *)
(***************************************************************************)

\* The list the call that has just settled worked on, and the memorized corpus
Ranked == heap[returned.movies]
Corpus == IF moviesCache = 0 THEN None ELSE Some(heap[moviesCache])

\* Call p settles in this step: returned' is its outcome.
Settles(p) == calls[p].pc # "idle" /\ calls'[p].pc = "idle"

\* C1: a call of the Grok-backed engine that ranks with the cached matrix
\* (buildTfIdfMatrix did not rebuild) ranks with the matrix of the very list
\* it was given, with the contents that list has now.
C1_ReusedMatrixIsOfTheList ==
  (engine = "grok" /\ returned.kind = "ok" /\ ~returned.rebuilt)
    => tfidfMatrix = Some(tfIdfRows(Ranked, buildVocabulary(Ranked)))

\* C2: a call that resolves its title only through the external lookup
\* appends exactly one item, the one found, to the memorized corpus and
\* rebuilds the matrix in its single build, so that the matrix has one row
\* per item, the prior items keeping their index and the appended item last;
\* the call that follows it for the same title on the same memorized list
\* resolves without a lookup and ranks with that matrix, nothing rebuilt.
C2_AppendThenOneRebuild ==
  [][\A p \in Calls : Settles(p) =>
       LET l == calls[p].movies
           before == heap[l]
           after == heap'[l]
       IN  /\ returned'.appended =>
                /\ l = moviesCache /\ moviesCache' = moviesCache
                /\ Len(after) = Len(before) + 1
                /\ SubSeq(after, 1, Len(before)) = before
                /\ toLowerCase(after[Len(after)].title)
                     = toLowerCase(trim(calls[p].movieTitle))
                /\ returned'.kind = "ok" /\ returned'.lookups = 1
                /\ returned'.rebuilt
                /\ vocabulary' = Some(buildVocabulary(after))
                /\ tfidfMatrix' = Some(tfIdfRows(after, buildVocabulary(after)))
                /\ Len(tfidfMatrix'[1]) = Len(before) + 1
           /\ (lastAppend.movies = l /\ lastAppend.movieTitle = calls[p].movieTitle) =>
                /\ returned'.kind = "ok" /\ returned'.lookups = 0
                /\ ~returned'.appended /\ ~returned'.rebuilt
                /\ after = before
                /\ tfidfMatrix' = tfidfMatrix /\ vocabulary' = vocabulary
  ]_vars

\* C2 witness: a call has appended, and the next call for the same title has
\* been given the same list.
C2_Witness ==
  \E p \in Calls :
    /\ calls[p].pc = "loaded"
    /\ lastAppend.movies = calls[p].movies
    /\ lastAppend.movieTitle = calls[p].movieTitle
    /\ tfidfMatrix # None /\ Len(tfidfMatrix[1]) = Len(heap[calls[p].movies])

\* C3: whatever the interleaving, the matrix a call ranks with has as many
\* rows as the list it ranks has items.
C3_RowsMatchItems ==
  (engine = "grok" /\ returned.kind = "ok") => Len(tfidfMatrix[1]) = Len(Ranked)

\* C3 witness: a call has ranked a list that a concurrent reload has already
\* replaced as the memorized corpus, while another call is in flight.
C3_Witness ==
  /\ engine = "grok" /\ returned.kind = "ok"
  /\ returned.movies # moviesCache
  /\ \E q \in Calls : calls[q].pc # "idle"

\* C4: no two items of the memorized corpus have the same movie_id.
C4_UniqueMovieIds ==
  (engine = "grok" /\ moviesCache # 0) =>
    \A i, j \in 1..Len(heap[moviesCache]) :
      i # j => heap[moviesCache][i].movie_id # heap[moviesCache][j].movie_id

\* C5: loadMovies returns the memorized corpus, the data source not invoked
\* and nothing changed, when a corpus is memorized and less than one hour has
\* passed since the last refresh; otherwise it invokes the data source, and
\* when that has answered it memorizes a new corpus made of the answer and
\* sets the refresh timestamp to the current time.
C5_LoadMovies ==
  [][\A p \in Calls :
       /\ (calls[p].pc = "idle" /\ calls'[p].pc # "idle") =>
            IF moviesCache # 0 /\ now - cacheTimestamp < 60 * 60 * 1000
            THEN /\ calls'[p].pc = "loaded" /\ calls'[p].movies = moviesCache
                 /\ UNCHANGED << heap, moviesCache, cacheTimestamp, grokMoviesCache,
                                 grokTimestamp >>
            ELSE calls'[p].pc \in {"fetchAll", "gotAll"}
       /\ (calls[p].pc = "gotAll" /\ calls'[p].pc # "gotAll") =>
            /\ calls'[p].pc = "loaded" /\ calls'[p].movies = moviesCache'
            /\ moviesCache' # 0
            /\ heap'[moviesCache'] = toMovies(calls[p].grokMovies)
            /\ cacheTimestamp' = now
  ]_vars

\* C5 witness: loadMovies has gone to the data source although a corpus is
\* memorized, because it is one hour old.
C5_Witness ==
  \E p \in Calls :
    /\ calls[p].pc = "gotAll"
    /\ moviesCache # 0 /\ now - cacheTimestamp = CACHE_DURATION

\* C6: the list a call returns has at most top_n entries and none of them
\* is the corpus row of the item the title resolved to.
C6_NoQueryRowAtMostTopN ==
  returned.kind = "ok" =>
    /\ Len(returned.recs) <= returned.numRecommendations
    /\ \A k \in 1..Len(returned.recs) : returned.recs[k].row # returned.inputMovie

\* The cosine the engines compute for row i against the query row q
scoreOf(matrix, q, i) == cosineSimilarity(rowAt(matrix, q), rowAt(matrix, i))

Min(a, b) == IF a < b THEN a ELSE b

\* C7: the list a call returns is in order of non-increasing score, equal
\* scores in corpus order, and is the first top_n of all the rows but the
\* query's in that order; each entry is the item of its row with the score
\* to four decimals.
C7_TopNOfStableOrder ==
  returned.kind = "ok" =>
    LET recs == returned.recs
        q == returned.inputMovieIndex
        others == (1..Len(Ranked)) \ {q}
        taken == { recs[k].row : k \in 1..Len(recs) }
    IN  /\ Len(recs) = Min(returned.numRecommendations, Cardinality(others))
        /\ Cardinality(taken) = Len(recs)
        /\ taken \subseteq others
        /\ \A k \in 1..Len(recs) :
             /\ recs[k].movie = Ranked[recs[k].row]
             /\ recs[k].score = scoreOf(tfidfMatrix[1], q, recs[k].row)
             /\ recs[k].similarity_score = toFixed4(recs[k].score)
        /\ \A k \in 1..(Len(recs) - 1) :
             \/ recs[k].score > recs[k + 1].score
             \/ recs[k].score = recs[k + 1].score /\ recs[k].row < recs[k + 1].row
        /\ \A k \in 1..Len(recs) : \A j \in others \ taken :
             \/ recs[k].score > scoreOf(tfidfMatrix[1], q, j)
             \/ recs[k].score = scoreOf(tfidfMatrix[1], q, j) /\ recs[k].row < j

\* C7 witness: a returned list cut to top_n, with two different scores, that
\* leaves out a row scoring as much as its last entry.
C7_Witness ==
  /\ returned.kind = "ok"
  /\ Len(returned.recs) = 2
  /\ Len(Ranked) > 3
  /\ returned.recs[1].score > returned.recs[2].score
  /\ \E j \in 1..Len(Ranked) :
       /\ j > returned.recs[2].row
       /\ j # returned.inputMovieIndex
       /\ scoreOf(tfidfMatrix[1], returned.inputMovieIndex, j) = returned.recs[2].score

\* The three-item corpus of the scenario
ScenarioCorpus == toMovies(fetchMoviesFromGrok(Scenario))

\* C8: for the three-item corpus of the scenario, recommend("Inception", 2)
\* returns "The Thief" ranked above "Romance Story".
C8_ThiefAboveRomance ==
  (/\ engine = "grok" /\ returned.kind = "ok"
   /\ returned.movieTitle = "Inception" /\ returned.numRecommendations = 2
   /\ Ranked = ScenarioCorpus)
    => [k \in 1..Len(returned.recs) |-> returned.recs[k].movie.title]
         = <<"The Thief", "Romance Story">>

\* C8 witness: that call has returned, its matrix built from the corpus.
C8_Witness ==
  /\ engine = "grok" /\ returned.kind = "ok"
  /\ returned.movieTitle = "Inception" /\ returned.numRecommendations = 2
  /\ Ranked = ScenarioCorpus
  /\ returned.rebuilt

\* What C9 says the resolver returns for query in items: the first item whose
\* normalized title equals the normalized query, else the first whose
\* normalized title contains it, else none (0).
Normalized(title) == toLowerCase(trim(title))

FirstEqualElseFirstContaining(items, query) ==
  LET Equal(i) == Normalized(items[i].title) = Normalized(query)
      Contains(i) == includes(Normalized(items[i].title), Normalized(query))
  IN  IF \E i \in 1..Len(items) : Equal(i)
      THEN CHOOSE i \in 1..Len(items) : Equal(i) /\ \A j \in 1..(i - 1) : ~Equal(j)
      ELSE IF \E i \in 1..Len(items) : Contains(i)
      THEN CHOOSE i \in 1..Len(items) : Contains(i) /\ \A j \in 1..(i - 1) : ~Contains(j)
      ELSE 0

FailingStep(p) ==
  /\ calls[p].pc \in {"loaded", "search"}
  /\ calls'[p] # calls[p]
  /\ returned'.kind # "ok"

\* C10 as stated, for a call that is bound to fail: the data source has
\* answered its loadMovies with no movies, so it will find its corpus empty.
\* The memorized corpus is the same after as before each of its steps.
C10_FailedCallLeavesCorpus ==
  [][\A p \in Calls :
       (calls[p].pc = "gotAll" /\ calls[p].grokMovies = <<>> /\ calls'[p].pc # "gotAll")
         => Corpus' = Corpus
  ]_vars

\* C10 amended: from the return of its loadMovies on, a call that fails for
\* an empty corpus or for a title resolved neither in the corpus nor by the
\* external lookup leaves the lists, the memorized corpus, the matrix and
\* the vocabulary as they are; it fails for an empty corpus exactly when its
\* list is empty, without a lookup, and as not found after one lookup.
C10_FailsWithoutEffect ==
  [][\A p \in Calls : FailingStep(p) =>
       /\ heap' = heap /\ moviesCache' = moviesCache
       /\ tfidfMatrix' = tfidfMatrix /\ vocabulary' = vocabulary
       /\ (calls[p].pc = "loaded" /\ heap[calls[p].movies] = <<>>)
            <=> returned'.kind = "empty"
       /\ returned'.kind = "empty" => returned'.lookups = 0
       /\ returned'.kind = "notfound" => calls[p].pc = "search" /\ returned'.lookups = 1
       /\ returned'.kind \in {"empty", "notfound", "none"}
  ]_vars

\* C10 witness: a call has failed as not found, after its lookup, while a
\* matrix and a vocabulary were cached.
C10_Witness ==
  /\ returned.kind = "notfound" /\ returned.lookups = 1
  /\ tfidfMatrix # None /\ vocabulary # None
  /\ Len(Ranked) > 0

\* C11: whenever a call has resolved its title to an item (by the title
\* resolver or by the external lookup), the row-index lookup that follows
\* yields the index of that very item and the call does not end in the
\* defensive failure.
C11_RowIndexIsOfTheItem ==
  returned.inputMovie # 0 =>
    /\ returned.kind = "ok"
    /\ returned.inputMovieIndex = returned.inputMovie

(***************************************************************************)
(* cosineSimilarity and the ranking loop as functions: vectors and         *)
(* matrices are drawn, well-formed or not, and the code is applied         *)
(***************************************************************************)

MaxDim == 2

VecEntries == {-1, 0, 1}

\* number[] values of up to MaxDim entries, and undefined
CosineVectors ==
  {NoVector} \cup
    UNION { { [num |-> v, den |-> 1] : v \in [1..k -> VecEntries] } : k \in 0..MaxDim }

\* Rows a matrix may hold: a row, a shorter row, a zero row, no row
MatrixRows ==
  { NoVector, [num |-> <<1, 1>>, den |-> 1], [num |-> <<1>>, den |-> 1],
    [num |-> <<0, 0>>, den |-> 1] }

\* Matrices for a list of three items, possibly a row short
Matrices == [1..2 -> MatrixRows] \cup [1..3 -> MatrixRows]

CosineInit ==
  /\ engine = "none"
  /\ now = StartTime
  /\ heap = << titled(<<"Inception", "The Thief", "Romance Story">>) >>
  /\ moviesCache = 1
  /\ tfidfMatrix = None
  /\ vocabulary = None
  /\ cacheTimestamp = StartTime
  /\ grokMoviesCache = None
  /\ grokTimestamp = 0
  /\ calls = [p \in Calls |-> IdleCall]
  /\ returned = NoOut
  /\ lastAppend = NoAppend
  /\ ImdbInit

\* score: what cosineSimilarity(vec1, vec2) returns
Cosine(vec1, vec2) ==
  /\ Quiet
  /\ returned' = [kind |-> "cosine", movies |-> moviesCache, vec1 |-> vec1, vec2 |-> vec2,
                  score |-> cosineSimilarity(vec1, vec2)]
  /\ UNCHANGED << engine, now, heap, moviesCache, tfidfMatrix, vocabulary, cacheTimestamp,
                  grokMoviesCache, grokTimestamp, calls, lastAppend >>
  /\ UNCHANGED imdbVars

\* similarities: what the loop of getRecommendations collects for the
\* memorized list, the matrix and the query row inputMovieIndex
RankRows(matrix, inputMovieIndex) ==
  /\ Quiet
  /\ returned' = [kind |-> "rows", movies |-> moviesCache, matrix |-> matrix,
                  inputMovieIndex |-> inputMovieIndex,
                  similarities |-> similaritiesFrom(heap[moviesCache], matrix,
                                                    inputMovieIndex, 1)]
  /\ UNCHANGED << engine, now, heap, moviesCache, tfidfMatrix, vocabulary, cacheTimestamp,
                  grokMoviesCache, grokTimestamp, calls, lastAppend >>
  /\ UNCHANGED imdbVars

CosineNext ==
  \/ Return
  \/ \E vec1 \in CosineVectors, vec2 \in CosineVectors : Cosine(vec1, vec2)
  \/ \E matrix \in Matrices, inputMovieIndex \in 1..2 : RankRows(matrix, inputMovieIndex)

SpecCosine == CosineInit /\ [][CosineNext]_vars

ZeroNorm(vec) == \A i \in 1..Len(vec.num) : vec.num[i] = 0

MaxItems == 3

\* Items with and without tokens, with repeated and shared words
IndexItems ==
  { [movie_id |-> 0, title |-> "Up", genre |-> "", overview |-> "it"],
    [movie_id |-> 0, title |-> "", genre |-> "", overview |-> ""],
    [movie_id |-> 0, title |-> "Heat", genre |-> "Crime", overview |-> "a thief robs banks"],
    [movie_id |-> 0, title |-> "The Thief", genre |-> "Crime",
     overview |-> "a thief steals jewels"],
    [movie_id |-> 0, title |-> "Love!", genre |-> "Sci-Fi", overview |-> "LOVE, love & war"],
    [movie_id |-> 0, title |-> "war 2", genre |-> "B_movie", overview |-> "2 Fast\t4 u"] }

IndexCorpora == UNION { [1..k -> IndexItems] : k \in 0..MaxItems }

IndexTexts ==
  { "", "  ", "a to of", "Heat", "The Thief", "  Fast & FURIOUS 7 ", "sci-fi",
    "sci_fi film", "love,LOVE;love", "it's 2001:\ta space odyssey\n", "x1 r2d2 C3PO",
    "__ ___ a_b", "don't", "war war war" }

IndexInit ==
  /\ engine = "none"
  /\ now = StartTime
  /\ \E items \in IndexCorpora : heap = <<items>>
  /\ moviesCache = 1
  /\ tfidfMatrix = None
  /\ vocabulary = None
  /\ cacheTimestamp = StartTime
  /\ grokMoviesCache = None
  /\ grokTimestamp = 0
  /\ calls = [p \in Calls |-> IdleCall]
  /\ returned = NoOut
  /\ lastAppend = NoAppend
  /\ ImdbInit

\* tokens: what tokenize(text) returns
Tokenize(text) ==
  /\ Quiet
  /\ returned' = [kind |-> "tokens", movies |-> moviesCache, text |-> text,
                  tokens |-> tokenize(text)]
  /\ UNCHANGED << engine, now, heap, moviesCache, tfidfMatrix, vocabulary, cacheTimestamp,
                  grokMoviesCache, grokTimestamp, calls, lastAppend >>
  /\ UNCHANGED imdbVars

\* vocabulary: what buildVocabulary(movies) returns for the drawn corpus
Vocabulary ==
  /\ Quiet
  /\ returned' = [kind |-> "vocabulary", movies |-> moviesCache,
                  vocabulary |-> buildVocabulary(heap[moviesCache])]
  /\ UNCHANGED << engine, now, heap, moviesCache, tfidfMatrix, vocabulary, cacheTimestamp,
                  grokMoviesCache, grokTimestamp, calls, lastAppend >>
  /\ UNCHANGED imdbVars

\* built: what buildTfIdfMatrix(movies) throws or returns for the drawn
\* corpus when nothing is cached
Matrix ==
  /\ Quiet
  /\ returned' = [kind |-> "matrix", movies |-> moviesCache,
                  built |-> buildTfIdfMatrix(heap[moviesCache], None, None, FALSE)]
  /\ UNCHANGED << engine, now, heap, moviesCache, tfidfMatrix, vocabulary, cacheTimestamp,
                  grokMoviesCache, grokTimestamp, calls, lastAppend >>
  /\ UNCHANGED imdbVars

IndexNext == Return \/ Vocabulary \/ Matrix \/ \E text \in IndexTexts : Tokenize(text)

SpecIndex == IndexInit /\ [][IndexNext]_vars

RECURSIVE IndexFrom(_, _, _)
IndexFrom(s, tok, start) ==
  IF start + Len(tok) - 1 > Len(s) THEN 0
  ELSE IF SubSeq(s, start, start + Len(tok) - 1) = tok THEN start
  ELSE IndexFrom(s, tok, start + 1)

\* The tokens occur in s one after the other, from position start on
RECURSIVE OccurInOrder(_, _, _)
OccurInOrder(s, tokens, start) ==
  IF tokens = <<>> THEN TRUE
  ELSE LET at == IndexFrom(s, Head(tokens), start)
       IN  at # 0 /\ OccurInOrder(s, Tail(tokens), at + Len(Head(tokens)))

\* C14: every token tokenize returns has at least 3 characters, all of them
\* lowercase letters or digits, and the tokens occur in the lowercased text
\* in the order in which they are returned.
C14_TokensLowerAlnumInOrder ==
  returned.kind = "tokens" =>
    /\ \A k \in 1..Len(returned.tokens) :
         /\ Len(returned.tokens[k]) >= 3
         /\ \A i \in 1..Len(returned.tokens[k]) :
              CharAt(returned.tokens[k], i) \in LowerChars \cup DigitChars
    /\ OccurInOrder(toLowerCase(returned.text), returned.tokens, 1)

\* The tokens of title + genre + overview over all items of a corpus
TokensOf(items) == UNION { Range(tokenize(combinedText(items[i]))) : i \in 1..Len(items) }

\* C15: buildVocabulary returns exactly the tokens of all items of the
\* corpus, in strictly ascending order (so none repeated); for the empty
\* corpus it returns the empty vocabulary.
C15_VocabularyIsSortedTokenSet ==
  returned.kind = "vocabulary" =>
    /\ Range(returned.vocabulary) = TokensOf(Ranked)
    /\ \A i, j \in 1..Len(returned.vocabulary) :
         i < j => StrLess(returned.vocabulary[i], returned.vocabulary[j])
    /\ Len(Ranked) = 0 => returned.vocabulary = <<>>

\* C15 witness: a vocabulary has been built for a corpus in which a token
\* occurs in two items and whose tokens do not occur in sorted order.
C15_Witness ==
  /\ returned.kind = "vocabulary" /\ Len(Ranked) >= 2
  /\ Len(allTokensFrom(Ranked, 1)) > Len(returned.vocabulary)
  /\ Len(returned.vocabulary) >= 3
  /\ \E i \in 1..(Len(allTokensFrom(Ranked, 1)) - 1) :
       StrLess(allTokensFrom(Ranked, 1)[i + 1], allTokensFrom(Ranked, 1)[i])

(***************************************************************************)
(* Keyword search over the CSV dataset (searchMoviesByKeyword)             *)
(***************************************************************************)

\* Math.min and Math.max: NaN if either argument is NaN
Math_min(a, b) == IF a = NaN \/ b = NaN THEN NaN ELSE IF a < b THEN a ELSE b
Math_max(a, b) == IF a = NaN \/ b = NaN THEN NaN ELSE IF a > b THEN a ELSE b

\* Math.max(1, Math.min(limit, 50))
clampLimit(limit) == Math_max(1, Math_min(limit, 50))

\* xs.slice(0, end) for end >= 0 or NaN (NaN is taken as 0)
sliceTo(xs, end) == IF end = NaN THEN <<>> ELSE slice(xs, end)

\* The industries as given, neither trimmed nor lowercased
industrySetAsGiven(industries) == Range(industries) \ {""}

\* new Set(industries.map(x => (x || '').trim().toLowerCase()).filter(Boolean))
industrySet(industries) == { toLowerCase(trim(industries[i])) : i \in DOMAIN industries } \ {""}

\* `${movie.title} ${movie.genre} ${movie.overview}`.toLowerCase()
haystack(movie) == toLowerCase(movie.title \o " " \o movie.genre \o " " \o movie.overview)

\* How many times t occurs in s, overlapping occurrences counted
occurrences(s, t) ==
  Cardinality({ i \in 0..(Len(s) - Len(t)) : SubSeq(s, i + 1, i + Len(t)) = t })

\* A score that counts every occurrence of every token
RECURSIVE keywordScoreCounting(_, _)
keywordScoreCounting(hay, tokens) ==
  IF tokens = <<>> THEN 0
  ELSE occurrences(hay, Head(tokens)) + keywordScoreCounting(hay, Tail(tokens))

\* for (const t of tokens) if (haystack.includes(t)) score += 1
RECURSIVE keywordScore(_, _)
keywordScore(hay, tokens) ==
  IF tokens = <<>> THEN 0
  ELSE (IF includes(hay, Head(tokens)) THEN 1 ELSE 0) + keywordScore(hay, Tail(tokens))

\* The loop over the movies from the i-th on: the scored entries, with the
\* row and the release year (release_year || 0) of the movie
RECURSIVE scoredFrom(_, _, _, _)
scoredFrom(movies, tokens, industries, i) ==
  IF i > Len(movies) THEN <<>>
  ELSE LET filter == industrySet(industries)
           score == keywordScore(haystack(movies[i]), tokens)
       IN  (IF filter # {} /\ toLowerCase(movies[i].industry) \notin filter THEN <<>>
            ELSE IF score > 0
            THEN << [row |-> i, score |-> score, year |-> movies[i].release_year] >>
            ELSE <<>>)
             \o scoredFrom(movies, tokens, industries, i + 1)

\* The comparator without its tie-breaker
RECURSIVE insertByKeywordScoreOnly(_, _)
insertByKeywordScoreOnly(sorted, x) ==
  IF sorted = <<>> THEN <<x>>
  ELSE IF Head(sorted).score >= x.score
       THEN <<Head(sorted)>> \o insertByKeywordScoreOnly(Tail(sorted), x)
       ELSE <<x>> \o sorted

\* One insertion of the stable sort by (b.score - a.score), then by
\* (b.year - a.year): x goes after every element that does not compare
\* greater than it.
RECURSIVE insertByKeyword(_, _)
insertByKeyword(sorted, x) ==
  IF sorted = <<>> THEN <<x>>
  ELSE IF \/ Head(sorted).score > x.score
          \/ Head(sorted).score = x.score /\ Head(sorted).year >= x.year
       THEN <<Head(sorted)>> \o insertByKeyword(Tail(sorted), x)
       ELSE <<x>> \o sorted

RECURSIVE sortByKeyword(_)
sortByKeyword(xs) ==
  IF xs = <<>> THEN <<>>
  ELSE insertByKeyword(sortByKeyword(SubSeq(xs, 1, Len(xs) - 1)), xs[Len(xs)])

\* searchMoviesByKeyword from `const tokens = tokenize(q)` on, for the loaded
\* movies: the scored entries in corpus order and the rows returned
keywordRanking(movies, q, industries, limit) ==
  LET tokens == tokenize(q)
  IN  IF tokens = <<>> THEN [scored |-> <<>>, result |-> <<>>]
      ELSE LET scored == scoredFrom(movies, tokens, industries, 1)
           IN  [scored |-> scored,
                result |-> sliceTo(sortByKeyword(scored), clampLimit(limit))]

\* What the dataset file may hold for the keyword search: titles, genres and
\* overviews that share words, industries in several spellings, equal and
\* missing years.
KeywordDataset ==
  << [movie_id |-> 1, title |-> "Inception", industry |-> "Hollywood",
      genre |-> "Action Sci-Fi", release_year |-> 2010,
      overview |-> "a thief steals secrets"],
     [movie_id |-> 2, title |-> "Romance Story", industry |-> "Bollywood",
      genre |-> "Romance", release_year |-> 2015, overview |-> "two people fall in love"],
     [movie_id |-> 3, title |-> "Love Wars", industry |-> " HOLLYWOOD ",
      genre |-> "War Romance", release_year |-> 2020,
      overview |-> "love and war, love again"],
     [movie_id |-> 4, title |-> "Old Gloves", industry |-> "Lollywood",
      genre |-> "Drama", release_year |-> 0, overview |-> "a story of boxing"],
     [movie_id |-> 5, title |-> "War Story", industry |-> "hollywood",
      genre |-> "War", release_year |-> 2015, overview |-> "war in the hills"],
     [movie_id |-> 6, title |-> "Lovers", industry |-> "Bollywood",
      genre |-> "Romance", release_year |-> 2021, overview |-> "a story"] >>

\* A dataset with more matching movies than the largest limit
LongLen == 52

LongDataset ==
  [i \in 1..LongLen |->
     [movie_id |-> i, title |-> "Love", industry |-> IF i % 2 = 0 THEN "Hollywood" ELSE "Bollywood",
      genre |-> IF i % 3 = 0 THEN "War" ELSE "", release_year |-> 2000 + (i % 5),
      overview |-> ""]]

\* The dataset file: not readable (readFileSync throws), or its records
KeywordFiles == { None, Some(<<>>), Some(KeywordDataset), Some(LongDataset) }

KeywordQueries ==
  { "", "  ", "an of", "xyz", "love", " LOVE ", "love love war", "war story", "thief!" }

KeywordIndustries ==
  { <<>>, <<"Hollywood">>, <<"bollywood", "LOLLYWOOD">>, <<"">>, <<" hollywood ">>,
    <<"Nollywood">> }

KeywordLimits == { NaN, -5, 0, 1, 2, 50, 51 }

KeywordInit ==
  /\ engine = "csv"
  /\ now = StartTime
  /\ heap = <<>>
  /\ moviesCache = 0
  /\ tfidfMatrix = None
  /\ vocabulary = None
  /\ cacheTimestamp = 0
  /\ grokMoviesCache = None
  /\ grokTimestamp = 0
  /\ calls = [p \in Calls |-> IdleCall]
  /\ returned = NoOut
  /\ lastAppend = NoAppend
  /\ ImdbInit

\* What a call of searchMoviesByKeyword ends in: kind is "array" (it returns
\* result, the rows of the movies in order) or "raised"
KeywordOut(kind, movies, query, industries, limit, scored, result) ==
  [kind |-> kind, movies |-> movies, query |-> query, industries |-> industries,
   limit |-> limit, scored |-> scored, result |-> result]

\* One whole call of searchMoviesByKeyword; file is what the dataset file
\* holds, read by loadMovies only if no corpus is memorized yet.
searchMoviesByKeyword(query, industries, limit, file) ==
  /\ Quiet
  /\ LET q == toLowerCase(trim(query))
     IN  IF q = ""
         THEN /\ returned' = KeywordOut("array", moviesCache, query, industries, limit,
                                        <<>>, <<>>)
              /\ UNCHANGED << heap, moviesCache >>
         ELSE IF moviesCache = 0 /\ file = None
         THEN /\ returned' = KeywordOut("raised", moviesCache, query, industries, limit,
                                        <<>>, <<>>)
              /\ UNCHANGED << heap, moviesCache >>
         ELSE \E h \in { IF moviesCache # 0 THEN heap ELSE <<csvToMovies(file[1])>> } :
              \E ranking \in { IF Len(h[1]) = 0 THEN [scored |-> <<>>, result |-> <<>>]
                               ELSE keywordRanking(h[1], q, industries, limit) } :
                /\ heap' = h
                /\ moviesCache' = 1
                /\ returned' = KeywordOut("array", 1, query, industries, limit,
                                          ranking.scored, ranking.result)
  /\ UNCHANGED << engine, now, tfidfMatrix, vocabulary, cacheTimestamp, grokMoviesCache,
                  grokTimestamp, calls, lastAppend >>
  /\ UNCHANGED imdbVars

KeywordNext ==
  \/ Return
  \/ \E query \in KeywordQueries, industries \in KeywordIndustries, limit \in KeywordLimits,
        file \in KeywordFiles :
       searchMoviesByKeyword(query, industries, limit, file)

SpecKeyword == KeywordInit /\ [][KeywordNext]_vars

\* The tokens of the query of the keyword search that has just ended, and
\* the rows of a list of entries
QueryTokens == tokenize(toLowerCase(trim(returned.query)))
Rows(entries) == { entries[k].row : k \in 1..Len(entries) }

\* Item i of the searched corpus contains some query token
ContainsAToken(i) ==
  \E k \in 1..Len(QueryTokens) : includes(haystack(Ranked[i]), QueryTokens[k])

\* C16 as stated: only items that contain a query token and, when the
\* industry list is not empty, whose industry equals a listed industry
\* ignoring case are scored and returned, and every such item is scored (it
\* can miss from the result only by the cut at the limit).
C16_FilterOfTheListAsGiven ==
  (returned.kind = "array" /\ returned.movies # 0) =>
    LET Listed(i) ==
          \E j \in 1..Len(returned.industries) :
            toLowerCase(Ranked[i].industry) = toLowerCase(returned.industries[j])
        Qualifies(i) == ContainsAToken(i) /\ (returned.industries # <<>> => Listed(i))
    IN  /\ Rows(returned.scored) = { i \in 1..Len(Ranked) : Qualifies(i) }
        /\ Rows(returned.result) \subseteq Rows(returned.scored)

\* C16 amended: the filter is made of the listed industries trimmed and
\* lowercased, blank entries dropped, and applies only if it is not empty;
\* the items scored are exactly those that contain a query token and whose
\* lowercased industry is in the filter, and the items returned are among
\* them.
C16_FilterOfTheNonBlankIndustries ==
  (returned.kind = "array" /\ returned.movies # 0) =>
    LET filter == { toLowerCase(trim(returned.industries[j])) :
                      j \in 1..Len(returned.industries) } \ {""}
        Qualifies(i) ==
          ContainsAToken(i) /\ (filter # {} => toLowerCase(Ranked[i].industry) \in filter)
    IN  /\ Rows(returned.scored) = { i \in 1..Len(Ranked) : Qualifies(i) }
        /\ Rows(returned.result) \subseteq Rows(returned.scored)
        /\ Len(returned.result) = Cardinality(Rows(returned.result))

\* C16 witness: a search with two listed industries in other letter case
\* has returned an item, while another item that contains a query token was
\* left out by the filter.
C16_Witness ==
  /\ returned.kind = "array" /\ returned.movies # 0
  /\ returned.industries = <<"bollywood", "LOLLYWOOD">>
  /\ \E k \in 1..Len(returned.result) : Ranked[returned.result[k].row].industry = "Lollywood"
  /\ \E i \in 1..Len(Ranked) : ContainsAToken(i) /\ i \notin Rows(returned.scored)

\* Entry a does not come after entry b in the order of the keyword search:
\* a higher score, or the same score and a release year not older
NotAfter(a, b) == a.score > b.score \/ (a.score = b.score /\ a.year >= b.year)

\* C17: the list searchMoviesByKeyword returns is in order of non-increasing
\* score and, among equal scores, of non-increasing release year, and no
\* scored item that was left out comes before a returned one in that order.
C17_ByScoreThenNewerFirst ==
  returned.kind = "array" =>
    /\ \A k \in 1..(Len(returned.result) - 1) :
         NotAfter(returned.result[k], returned.result[k + 1])
    /\ \A k \in 1..Len(returned.result), j \in 1..Len(returned.scored) :
         returned.scored[j].row \notin Rows(returned.result)
           => NotAfter(returned.result[k], returned.scored[j])

\* C17 witness: a search has returned items of different scores and items
\* of one score and different years, in another order than the corpus has
\* them, with a scored item left out.
C17_Witness ==
  /\ returned.kind = "array" /\ Len(returned.result) < Len(returned.scored)
  /\ \E k \in 1..(Len(returned.result) - 1) :
       returned.result[k].score > returned.result[k + 1].score
  /\ \E k \in 1..(Len(returned.result) - 1) :
       /\ returned.result[k].score = returned.result[k + 1].score
       /\ returned.result[k].year > returned.result[k + 1].year
       /\ returned.result[k].row > returned.result[k + 1].row

\* C18: the result of searchMoviesByKeyword is cut at an effective limit in
\* [1, 50], which is 1 for a limit below 1, 50 for a limit above 50 and the
\* limit itself otherwise: the result has that many items, or all the scored
\* items if they are fewer.
C18_LimitClampedInto1To50 ==
  returned.kind = "array" =>
    \E c \in 1..50 :
      /\ (returned.limit # NaN /\ returned.limit < 1) => c = 1
      /\ (returned.limit # NaN /\ returned.limit > 50) => c = 50
      /\ returned.limit \in 1..50 => c = returned.limit
      /\ Len(returned.result) = Min(Len(returned.scored), c)

\* C19: searchMoviesByKeyword never raises, whatever loading the dataset
\* gives: it returns an array, the empty one for a query that is blank or
\* has no token and for an empty corpus.
C19_AlwaysAnArray ==
  returned.kind \in {"array", "raised"} =>
    /\ returned.kind = "array"
    /\ (\/ trim(returned.query) = ""
        \/ QueryTokens = <<>>
        \/ (returned.movies # 0 /\ Len(Ranked) = 0))
         => returned.result = <<>>

\* C20 as stated: the score of every scored item is the number of distinct
\* query tokens that occur in its lowercased title + genre + overview.
C20_ScoreCountsDistinctTokens ==
  returned.kind = "array" =>
    \A k \in 1..Len(returned.scored) :
      returned.scored[k].score =
        Cardinality({ t \in Range(QueryTokens) :
                        includes(haystack(Ranked[returned.scored[k].row]), t) })

\* C20 amended: the score of every scored item is the number of tokens of
\* the query, a token the query repeats counted as often as the query has
\* it, that occur in the item's lowercased title + genre + overview; how
\* often a token occurs in that text makes no difference.
C20_ScoreCountsQueryTokens ==
  returned.kind = "array" =>
    \A k \in 1..Len(returned.scored) :
      returned.scored[k].score =
        Cardinality({ j \in 1..Len(QueryTokens) :
                        includes(haystack(Ranked[returned.scored[k].row]), QueryTokens[j]) })

\* C20 witness: an item in whose text the only query token occurs more than
\* once has been scored 1.
C20_Witness ==
  /\ returned.kind = "array" /\ Len(QueryTokens) = 1
  /\ \E k \in 1..Len(returned.scored) :
       /\ returned.scored[k].score = 1
       /\ occurrences(haystack(Ranked[returned.scored[k].row]), QueryTokens[1]) > 1

(***************************************************************************)
(* Overlapping calls and the two caches of the Grok path                   *)
(***************************************************************************)

\* The normalized titles of a list are pairwise different.
DistinctTitles(items) ==
  \A i, j \in 1..Len(items) :
    i < j => normalizeTitle(items[i].title) # normalizeTitle(items[j].title)

\* C28: a title found only by the external lookup is appended at most
\* once, however the calls overlap: the memorized corpus never holds two
\* items of one normalized title, and the list a call appended to is the
\* memorized corpus, the one later calls load.
C28_AppendedAtMostOnce ==
  /\ moviesCache # 0 => DistinctTitles(heap[moviesCache])
  /\ returned.kind = "ok" /\ returned.appended => returned.movies = moviesCache

\* Call p is between the return of getAllMoviesFromGrok and the resumption
\* of the loadMovies that awaits it.
InnerAhead(p) == calls[p].pc = "gotAll"

\* Call p begins in this step and its loadMovies finds no valid corpus
\* memorized.
Refreshes(p) ==
  /\ calls[p].pc = "idle" /\ calls'[p].pc # "idle"
  /\ ~cacheValid(moviesCache, cacheTimestamp, now)

\* loadMovies' refresh timestamp is not earlier than getAllMoviesFromGrok's.
OuterNotEarlier == cacheTimestamp >= grokTimestamp

\* A refresh goes to fetchMoviesFromGrok, never to the list the inner cache
\* holds.
RefreshFetches == \A p \in Calls : Refreshes(p) => calls'[p].pc = "fetchAll"

\* C29 (as stated): in every reachable state the refresh timestamp of
\* loadMovies is not earlier than that of getAllMoviesFromGrok, and every
\* refresh of loadMovies performs a real fetch.
C29_OuterNeverEarlier == []OuterNotEarlier /\ [][RefreshFetches]_vars

\* C29 (amended): with calls that do not overlap, the refresh timestamp of
\* loadMovies is not earlier than that of getAllMoviesFromGrok in every
\* state but those between the return of getAllMoviesFromGrok and the
\* resumption of loadMovies, and every refresh of loadMovies performs a
\* real fetch.
C29_OuterNotEarlierOnceResumed ==
  /\ []((\A p \in Calls : ~InnerAhead(p)) => OuterNotEarlier)
  /\ [][RefreshFetches]_vars

\* A call refreshes a memorized corpus that has expired, and fetches.
C29_Witness ==
  /\ moviesCache # 0
  /\ grokMoviesCache # None
  /\ now - cacheTimestamp >= CACHE_DURATION
  /\ \E p \in Calls : calls[p].pc = "fetchAll"

(***************************************************************************)
(* The sign of the TF-IDF weights                                          *)
(***************************************************************************)

\* The token lists of the corpus a matrix was built for, the number of
\* documents that contain the k-th word of its vocabulary, and the weight of
\* that word in row i (its numerator: the denominator is positive)
DocTokens == [i \in 1..Len(Ranked) |-> tokenize(combinedText(Ranked[i]))]
BuiltVocabulary == returned.built.vocabulary[1]
df(k) == docCount(DocTokens, BuiltVocabulary[k])
Weight(i, k) == returned.built.matrix[1][i].num[k]
Contains(i, k) == termFreq(DocTokens[i], BuiltVocabulary[k]) > 0

\* What the k-th word adds to the dot product of rows i and j
Contribution(i, j, k) == Weight(i, k) * Weight(j, k)

MatrixBuilt == returned.kind = "matrix" /\ ~returned.built.error

\* The weight of a word is 0 in every row when it occurs in N - 1
\* documents; in the rows that contain it, it is negative when the word
\* occurs in all N documents and positive when it occurs in N - 2 or fewer.
WeightSigns ==
  LET N == Len(Ranked)
  IN  \A i \in 1..N : \A k \in 1..Len(BuiltVocabulary) :
        /\ ~Contains(i, k) => Weight(i, k) = 0
        /\ df(k) = N - 1 => Weight(i, k) = 0
        /\ df(k) = N /\ Contains(i, k) => Weight(i, k) < 0
        /\ df(k) <= N - 2 /\ Contains(i, k) => Weight(i, k) > 0

HighSurrogate == "\f"
LowSurrogate == "\r"
ClapperBoard == HighSurrogate \o LowSurrogate

\* No surrogate of s, from position i on, is without its partner.
RECURSIVE wellFormedFrom(_, _)
wellFormedFrom(s, i) ==
  IF i > Len(s) THEN TRUE
  ELSE IF CharAt(s, i) = HighSurrogate
  THEN i < Len(s) /\ CharAt(s, i + 1) = LowSurrogate /\ wellFormedFrom(s, i + 2)
  ELSE CharAt(s, i) # LowSurrogate /\ wellFormedFrom(s, i + 1)

wellFormed(s) == wellFormedFrom(s, 1)

HexDigits == "0123456789ABCDEF"
percent(n) == "%" \o CharAt(HexDigits, (n \div 16) + 1) \o CharAt(HexDigits, (n % 16) + 1)

UriUnreserved ==
  UpperChars \cup LowerChars \cup DigitChars \cup {"-", "_", ".", "!", "~", "*", "'", "(", ")"}

\* The escapes of a well-formed s from position i on: UTF-8, byte by byte
RECURSIVE escapedFrom(_, _)
escapedFrom(s, i) ==
  IF i > Len(s) THEN ""
  ELSE IF CharAt(s, i) = HighSurrogate THEN "%F0%9F%8E%AC" \o escapedFrom(s, i + 2)
  ELSE (IF CharAt(s, i) \in UriUnreserved THEN CharAt(s, i)
        ELSE percent(CharCode[CharAt(s, i)])) \o escapedFrom(s, i + 1)

escaped(s) == escapedFrom(s, 1)

\* encodeURIComponent(s): absent when it throws URIError (a lone surrogate)
encodeURIComponent(s) == IF wellFormed(s) THEN Some(escaped(s)) ELSE None

CACHE_TTL_MS == 10 * 60 * 1000

\* (q || '').trim().toLowerCase()
normalizeQuery(q) == toLowerCase(trim(q))

\* cache.set(key, entry)
mapSet(map, key, entry) ==
  [k \in DOMAIN map \cup {key} |-> IF k = key THEN entry ELSE map[k]]

\* toSummary(item): absent without id or label.  (year and type are left
\* out: nothing modelled reads them.)
toSummary(item) ==
  IF item.id = "" \/ item.l = "" THEN None
  ELSE Some([imdbId |-> item.id, title |-> item.l, poster |-> item.imageUrl,
             imdbUrl |-> "https://www.imdb.com/title/" \o item.id \o "/"])

\* list.map(toSummary).filter(Boolean)
RECURSIVE summariesOf(_)
summariesOf(list) ==
  IF list = <<>> THEN <<>> ELSE toSummary(Head(list)) \o summariesOf(Tail(list))

\* Entries of the suggestion endpoint's d: an absent string field is "".
Film == [id |-> "tt0113277", l |-> "Heat", imageUrl |-> "https://m.media-amazon.com/heat.jpg"]
Person == [id |-> "nm0000134", l |-> "Robert De Niro", imageUrl |-> ""]
Unlabelled == [id |-> "tt0000001", l |-> "", imageUrl |-> ""]

\* How the HTTP call may end: fetch rejects, the status is not OK, the body
\* is not JSON, or the body is parsed; then d is absent (or no array) or a
\* list.
HttpOutcomes ==
  { [kind |-> k, d |-> None] : k \in {"networkError", "notOk", "unparsable", "ok"} }
    \cup { [kind |-> "ok", d |-> Some(list)] :
             list \in { <<>>, <<Film>>, <<Person, Film>>, <<Unlabelled>>, <<Person>> } }

\* What imdbSuggestSearch returns after the HTTP call
searchValue(outcome) ==
  IF outcome.kind = "ok" /\ outcome.d # None THEN summariesOf(outcome.d[1]) ELSE <<>>

\* imdbSuggestSearch(query) up to its first await or to its end: a blank
\* query and an entry of the cache that has not expired settle the call at
\* once; the URL is built before the try block is entered.
searchStart(query, map, time) ==
  LET normalized == normalizeQuery(query)
      started == [NoLookup EXCEPT !.query = query, !.normalized = normalized]
  IN  IF normalized = "" THEN [started EXCEPT !.pc = "settled"]
      ELSE IF normalized \in DOMAIN map /\ map[normalized].expiresAt > time
      THEN [started EXCEPT !.pc = "settled", !.value = map[normalized].value,
                           !.cached = TRUE]
      ELSE IF encodeURIComponent(CharAt(normalized, 1)) = None
                \/ encodeURIComponent(normalized) = None
      THEN [started EXCEPT !.pc = "settled", !.raised = TRUE]
      ELSE [started EXCEPT !.pc = "fetch", !.fetched = TRUE,
                           !.url = "https://v2.sg.media-imdb.com/suggestion/"
                                     \o encodeURIComponent(CharAt(normalized, 1))[1] \o "/"
                                     \o encodeURIComponent(normalized)[1] \o ".json"]

\* imdbSuggestSearch after `await fetch(url)` and `await res.json()`: the
\* list, empty on any error, is put into the cache and returned.
HttpReturns(w, outcome) ==
  /\ imdbCalls[w].pc = "fetch"
  /\ imdbCache' = mapSet(imdbCache, imdbCalls[w].normalized,
                         [value |-> searchValue(outcome), expiresAt |-> now + CACHE_TTL_MS])
  /\ imdbCalls' = [imdbCalls EXCEPT ![w].pc = "settled", ![w].value = searchValue(outcome),
                                    ![w].outcome = outcome.kind]
  /\ UNCHANGED enrich
  /\ UNCHANGED engineVars
  /\ UNCHANGED request

\* A caller calls imdbSuggestSearch(query) when no other call is in flight.
Search(w, query) ==
  /\ enrich.fn = "none"
  /\ w = 1
  /\ \A v \in Workers : imdbCalls[v].pc = "idle"
  /\ imdbCalls' = [imdbCalls EXCEPT ![w] = searchStart(query, imdbCache, now)]
  /\ UNCHANGED << imdbCache, enrich >>
  /\ UNCHANGED engineVars
  /\ UNCHANGED request

\* The caller resumes with the list, or with the error raised.
Receive(w) ==
  /\ enrich.fn = "none"
  /\ imdbCalls[w].pc = "settled"
  /\ imdbCalls' = [imdbCalls EXCEPT ![w] = NoLookup]
  /\ UNCHANGED << imdbCache, enrich >>
  /\ UNCHANGED engineVars
  /\ UNCHANGED request

SearchQueries == { "", " \t", "Heat", " HEAT ", "Up!", ClapperBoard \o " Heat", "Heat " \o ClapperBoard }

\* No recommender is loaded: only the IMDb modules run.
EngineIdle ==
  /\ engine = "none"
  /\ now = StartTime
  /\ heap = <<>>
  /\ moviesCache = 0
  /\ tfidfMatrix = None
  /\ vocabulary = None
  /\ cacheTimestamp = 0
  /\ grokMoviesCache = None
  /\ grokTimestamp = 0
  /\ calls = [p \in Calls |-> IdleCall]
  /\ returned = NoOut
  /\ lastAppend = NoAppend

SuggestInit == EngineIdle /\ ImdbInit

SuggestNext ==
  \/ Tick
  \/ \E w \in Workers :
       \/ \E query \in SearchQueries : Search(w, query)
       \/ \E outcome \in HttpOutcomes : HttpReturns(w, outcome)
       \/ Receive(w)

SpecSuggest == SuggestInit /\ [][SuggestNext]_vars

\* The call of caller w has settled; it begins in this step; its query is
\* empty or only whitespace.
SearchSettled(w) == imdbCalls[w].pc = "settled"
SearchBegins(w) == imdbCalls[w].pc = "idle" /\ imdbCalls'[w].pc # "idle"
HttpFailed(w) == imdbCalls[w].outcome \in {"networkError", "notOk", "unparsable"}

\* A settled call has returned a list, the empty one after an HTTP call that
\* failed and, without an HTTP call, for a blank query.
ReturnsAList(w) ==
  SearchSettled(w) =>
    /\ ~imdbCalls[w].raised
    /\ HttpFailed(w) => imdbCalls[w].value = <<>>
    /\ normalizeQuery(imdbCalls[w].query) = ""
         => imdbCalls[w].value = <<>> /\ ~imdbCalls[w].fetched

\* A call with a blank query leaves the cache as it is.
BlankLeavesCache(w) ==
  SearchBegins(w) /\ normalizeQuery(imdbCalls'[w].query) = "" => imdbCache' = imdbCache

\* C26: imdbSuggestSearch never throws: for every query and every outcome of
\* the HTTP call it returns a list, empty on any error; a blank query
\* returns the empty list without an HTTP call and without changing the
\* cache.
C26_NeverThrows ==
  /\ [](\A w \in Workers : ReturnsAList(w))
  /\ [][\A w \in Workers : BlankLeavesCache(w)]_vars

(***************************************************************************)
(* Enrichment: enrichTitlesWithImdb (the recommend route) and              *)
(* enrichMoviesWithImdbPosters (lib/imdb-enrich), a pool of workers that   *)
(* share one queue; one action per stretch of code between two awaits      *)
(***************************************************************************)

EnrichFns == {"enrichTitlesWithImdb", "enrichMoviesWithImdbPosters"}

\* /^tt\d{5,}$/.test(id)
isValidImdbTitleId(id) ==
  /\ Len(id) >= 7
  /\ SubSeq(id, 1, 2) = "tt"
  /\ \A i \in 3..Len(id) : CharAt(id, i) \in DigitChars

\* a || b for strings (an absent string is "")
stringOr(a, b) == IF a # "" THEN a ELSE b

\* { ...base, imdbId: base.imdbId || best.imdbId, ... } with every field
\* taken from best
withMetadataOfBest(base, best) ==
  [base EXCEPT !.imdbId = best.imdbId, !.poster = best.poster, !.imdbUrl = best.imdbUrl]

\* { ...base, imdbId: base.imdbId || best.imdbId,
\*   poster: base.poster || best.poster, imdbUrl: base.imdbUrl || best.imdbUrl }
withMetadata(base, best) ==
  [base EXCEPT !.imdbId = stringOr(@, best.imdbId), !.poster = stringOr(@, best.poster),
               !.imdbUrl = stringOr(@, best.imdbUrl)]

\* title present, no poster, no imdbUrl
eligible(item) == item.title # "" /\ item.poster = "" /\ item.imdbUrl = ""

RECURSIVE indicesFrom(_, _, _)
indicesFrom(fn, items, i) ==
  IF i > Len(items) THEN <<>>
  ELSE (IF fn = "enrichTitlesWithImdb" \/ eligible(items[i]) THEN <<i>> ELSE <<>>)
         \o indicesFrom(fn, items, i + 1)

\* The queue with every entry twice
queueOfTwice(fn, items) == indicesFrom(fn, items, 1) \o indicesFrom(fn, items, 1)

\* const queue: the route queues every item, the library the eligible ones
\* (an entry is given by its idx; its item is items[idx])
queueOf(fn, items) == indicesFrom(fn, items, 1)

\* The worker's test after queue.shift(): continue without a lookup
skips(fn, item) ==
  IF fn = "enrichTitlesWithImdb" THEN ~eligible(item) ELSE trim(item.title) = ""

\* The argument of imdbSuggestSearch
queryOf(fn, item) == IF fn = "enrichTitlesWithImdb" THEN item.title ELSE trim(item.title)

\* best: suggestions[0] in the route, the first result with a valid title id
\* in the library; absent when there is none
bestOf(fn, results) ==
  IF fn = "enrichTitlesWithImdb"
  THEN IF results = <<>> THEN None ELSE Some(results[1])
  ELSE LET first == FirstIndex([pos \in 1..Len(results) |->
                                  isValidImdbTitleId(results[pos].imdbId)])
       IN  IF first = 0 THEN None ELSE Some(results[first])

\* The object the worker spreads: the queue entry's item in the route,
\* out[idx] in the library
baseOf(e, idx) == IF e.fn = "enrichTitlesWithImdb" THEN e.items[idx] ELSE e.out[idx]

\* The slot written after the k-th lookup to complete
slotOfCompletion(e, w) == Len(SelectSeq(e.looked, LAMBDA n : n > 0)) - Cardinality({ v \in Workers : e.pc[v] = "await" }) + 1

\* out[idx]: the slot worker w writes
slotOf(e, w) == e.idx[w]

\* The place in the queue of the first entry that needs a lookup (0: none)
firstDue(e) ==
  FirstIndex([pos \in 1..Len(e.queue) |-> ~skips(e.fn, e.items[e.queue[pos]])])

\* How many entries the worker shifts off the queue before it stops
shiftedOff(e) == IF firstDue(e) = 0 THEN Len(e.queue) ELSE firstDue(e)

\* Worker w from the test of its while loop to its next await or to its
\* end: entries are shifted off the queue up to the first that needs a
\* lookup; with none, the loop ends on the empty queue.
advance(e, w) ==
  [e EXCEPT !.queue = SubSeq(@, shiftedOff(e) + 1, Len(@)),
            !.taken = [i \in 1..Len(e.items) |->
                         e.taken[i] + Cardinality({ k \in 1..shiftedOff(e) : e.queue[k] = i })],
            !.looked = [i \in 1..Len(e.items) |->
                          IF firstDue(e) # 0 /\ e.queue[firstDue(e)] = i
                          THEN e.looked[i] + 1 ELSE e.looked[i]],
            !.pc[w] = IF firstDue(e) = 0 THEN "done" ELSE "await",
            !.idx[w] = IF firstDue(e) = 0 THEN 0 ELSE e.queue[firstDue(e)]]

\* Array.from({ length: n }, () => worker()): the workers w .. n are
\* started one after the other, each running to its first await.
RECURSIVE startWorkers(_, _, _)
startWorkers(e, w, n) == IF w > n THEN e ELSE startWorkers(advance(e, w), w + 1, n)

\* await Promise.all(...): the call resolves when every worker has ended.
settle(e) ==
  IF e.status = "running" /\ \A w \in Workers : e.pc[w] \in {"off", "done"}
  THEN [e EXCEPT !.status = "resolved"] ELSE e

\* The imdbSuggestSearch calls the workers of e are suspended at
searchesOf(e, map, time) ==
  [w \in Workers |->
     IF e.pc[w] = "await" THEN searchStart(queryOf(e.fn, e.items[e.idx[w]]), map, time)
     ELSE NoLookup]

\* The number of writes to out so far
writesOf(e) == SumSeq([i \in 1..Len(e.writers) |-> Len(e.writers[i])])

\* The call's frame at its first statement.  taken, looked, writers are
\* history: how often an entry was shifted off the queue, how often a
\* lookup was begun for it, and the writes to its slot.
newEnrichment(fn, items) ==
  [fn |-> fn, status |-> "running", items |-> items, out |-> items,
   queue |-> queueOf(fn, items), pc |-> [w \in Workers |-> "off"],
   idx |-> [w \in Workers |-> 0], taken |-> [i \in 1..Len(items) |-> 0],
   looked |-> [i \in 1..Len(items) |-> 0], writers |-> [i \in 1..Len(items) |-> <<>>]]

\* The enrichment function is called and runs to its await: the library
\* returns an empty list at once.
Enrich(fn, items, maxConcurrency) ==
  /\ Quiet
  /\ enrich.fn = "none"
  /\ \A w \in Workers : imdbCalls[w].pc = "idle"
  /\ \E started \in { IF fn = "enrichMoviesWithImdbPosters" /\ items = <<>>
                      THEN [newEnrichment(fn, items) EXCEPT !.status = "resolved"]
                      ELSE settle(startWorkers(newEnrichment(fn, items), 1,
                                               Math_max(1, maxConcurrency))) } :
       /\ enrich' = started
       /\ imdbCalls' = searchesOf(started, imdbCache, now)
  /\ UNCHANGED imdbCache
  /\ UNCHANGED engineVars
  /\ UNCHANGED request

\* Worker w after `await imdbSuggestSearch(...)`: a rejected lookup ends the
\* worker and rejects the call; otherwise the slot is written if there is a
\* best result, and the loop goes on to the next await or to its end.
WorkerResumes(w) ==
  /\ Quiet
  /\ enrich.pc[w] = "await"
  /\ imdbCalls[w].pc = "settled"
  /\ \E best \in { bestOf(enrich.fn, imdbCalls[w].value) }, slot \in { slotOf(enrich, w) } :
     \E written \in {
         IF best = None THEN enrich
         ELSE [enrich EXCEPT
                 !.out[slot] = withMetadata(baseOf(enrich, enrich.idx[w]), best[1]),
                 !.writers[slot] = Append(@, [worker |-> w,
                                              query |-> imdbCalls[w].query,
                                              best |-> best[1],
                                              nth |-> writesOf(enrich) + 1])] } :
     \E next \in {
         IF imdbCalls[w].raised
         THEN [enrich EXCEPT !.pc[w] = "raised", !.idx[w] = 0,
                             !.status = IF @ = "running" THEN "rejected" ELSE @]
         ELSE settle(advance(written, w)) } :
       /\ enrich' = next
       /\ imdbCalls' = [imdbCalls EXCEPT ![w] = searchesOf(next, imdbCache, now)[w]]
  /\ UNCHANGED imdbCache
  /\ UNCHANGED engineVars
  /\ UNCHANGED request

\* Items with and without title, poster, link and id of their own
Bare == [title |-> "Heat", genre |-> "Crime", imdbId |-> "", poster |-> "", imdbUrl |-> ""]
Shouted == [Bare EXCEPT !.title = " HEAT ", !.genre = "Drama"]
Known == [Bare EXCEPT !.imdbId = "tt9999999"]
Posted == [Bare EXCEPT !.title = "Up", !.poster = "https://img.example/up.jpg"]
Linked == [Bare EXCEPT !.title = "Up", !.imdbUrl = "https://www.imdb.com/title/tt1049413/"]
Untitled == [Bare EXCEPT !.title = ""]
Blank == [Bare EXCEPT !.title = "  "]
Clapper == [Bare EXCEPT !.title = ClapperBoard \o " Heat"]

EnrichLists ==
  { <<>>, <<Bare, Posted, Known>>, <<Untitled, Bare, Shouted>>, <<Known, Shouted, Bare>>,
    <<Blank, Linked, Bare>>, <<Clapper, Bare>>, <<Known, Clapper>> }

Concurrencies == 0..MaxWorkers

EnrichOutcomes ==
  { outcome \in HttpOutcomes :
      \/ outcome.kind \in {"networkError", "notOk"}
      \/ outcome.d \in { Some(<<>>), Some(<<Film>>), Some(<<Person, Film>>) } }

EnrichInit == EngineIdle /\ ImdbInit

EnrichNext ==
  \/ Tick
  \/ \E fn \in EnrichFns, items \in EnrichLists, maxConcurrency \in Concurrencies :
       Enrich(fn, items, maxConcurrency)
  \/ \E w \in Workers :
       \/ \E outcome \in EnrichOutcomes : HttpReturns(w, outcome)
       \/ WorkerResumes(w)

SpecEnrich == EnrichInit /\ [][EnrichNext]_vars

\* The fields enrichment may fill
MetadataFields == {"imdbId", "poster", "imdbUrl"}

\* out is item with, at most, metadata of best added.
FilledFrom(out, item, best) ==
  \A f \in DOMAIN item :
    \/ out[f] = item[f]
    \/ f \in MetadataFields /\ out[f] = best[f]

\* An enrichment call has been made; it has resolved.
Enriching == enrich.fn # "none"
Resolved == enrich.status = "resolved"

\* C21: in both enrichment functions, whatever the list, the number of
\* workers and the order in which the lookups complete, the output is as
\* long as the input and slot i holds input item i, unchanged or with
\* metadata of a result of the lookup made for the title of item i.
C21_SlotIHoldsItemI ==
  Enriching =>
    /\ Len(enrich.out) = Len(enrich.items)
    /\ \A i \in 1..Len(enrich.items) :
         \/ enrich.out[i] = enrich.items[i]
         \/ \E k \in 1..Len(enrich.writers[i]) :
              /\ normalizeQuery(enrich.writers[i][k].query)
                   = normalizeQuery(enrich.items[i].title)
              /\ FilledFrom(enrich.out[i], enrich.items[i], enrich.writers[i][k].best)

\* C21 witness: a call has resolved with two slots filled, the later slot
\* first.
C21_Witness ==
  /\ Resolved
  /\ \E i, j \in 1..Len(enrich.items) :
       /\ i < j
       /\ enrich.writers[i] # <<>> /\ enrich.writers[j] # <<>>
       /\ enrich.writers[i][1].nth > enrich.writers[j][1].nth
       /\ enrich.out[i] # enrich.items[i] /\ enrich.out[j] # enrich.items[j]

\* The positions the call queues, and the positions still in the queue
Queued ==
  IF enrich.fn = "enrichTitlesWithImdb" THEN 1..Len(enrich.items)
  ELSE { i \in 1..Len(enrich.items) : eligible(enrich.items[i]) }
InQueue == { enrich.queue[k] : k \in 1..Len(enrich.queue) }

\* C22: every queued entry is taken off the shared queue exactly once: an
\* entry is in the queue and untaken or out of it and taken once, and when
\* the call resolves the queue is empty; no position is looked up more than
\* once and no slot is written by two workers.
C22_TakenExactlyOnce ==
  Enriching =>
    /\ \A i \in 1..Len(enrich.items) :
         /\ enrich.taken[i] = (IF i \in Queued /\ i \notin InQueue THEN 1 ELSE 0)
         /\ enrich.looked[i] <= 1
         /\ Len(enrich.writers[i]) <= 1
    /\ Resolved => enrich.queue = <<>>

\* C22 witness: a call has resolved in which two workers each wrote a slot.
C22_Witness ==
  /\ Resolved
  /\ \E i, j \in 1..Len(enrich.items) :
       /\ enrich.writers[i] # <<>> /\ enrich.writers[j] # <<>>
       /\ enrich.writers[i][1].worker # enrich.writers[j][1].worker

\* C24: enrichment keeps the items in their places, changes no field but
\* imdbId, poster and imdbUrl, overwrites none of these that the item had,
\* and leaves an item that has a poster or an imdbUrl as it is.
C24_OnlyMissingMetadataIsFilled ==
  Enriching =>
    /\ Len(enrich.out) = Len(enrich.items)
    /\ \A i \in 1..Len(enrich.items) :
         LET item == enrich.items[i]
             out == enrich.out[i]
         IN  /\ DOMAIN out = DOMAIN item
             /\ \A f \in DOMAIN item :
                  f \notin MetadataFields \/ item[f] # "" => out[f] = item[f]
             /\ item.poster # "" \/ item.imdbUrl # "" => out = item

\* C24 witness: a call has resolved that filled the poster of an item with
\* an imdbId of its own and left an item with a poster alone.
C24_Witness ==
  /\ Resolved
  /\ \E i, j \in 1..Len(enrich.items) :
       /\ enrich.items[i].imdbId # "" /\ enrich.items[i].poster = ""
       /\ enrich.out[i].poster # ""
       /\ enrich.items[j].poster # ""

\* Every HTTP call ends, and the event loop resumes a worker whose lookup
\* has settled.
SpecEnrichFair ==
  /\ EnrichInit /\ [][EnrichNext]_vars
  /\ \A w \in Workers : WF_vars(\E outcome \in EnrichOutcomes : HttpReturns(w, outcome))
  /\ \A w \in Workers : WF_vars(WorkerResumes(w))

\* Worker w resumes in this step; the lookup it awaited failed or gave no
\* candidate.
Resumes(w) == enrich.pc[w] = "await" /\ enrich'.idx[w] # enrich.idx[w]
WithoutBest(w) ==
  /\ imdbCalls[w].pc = "settled"
  /\ imdbCalls[w].raised \/ bestOf(enrich.fn, imdbCalls[w].value) = None

\* The worker goes on to its next entry or ends with the empty queue, the
\* others are where they were, and out is as it was.
GoesOn(w) ==
  /\ enrich'.out = enrich.out
  /\ enrich'.pc[w] \in {"await", "done"}
  /\ \A v \in Workers \ {w} : enrich'.pc[v] = enrich.pc[v]

\* The items a lookup is due for: title present, no poster, no imdbUrl
LookedUpWhereDue ==
  \A i \in 1..Len(enrich.items) :
    eligible(enrich.items[i]) /\ trim(enrich.items[i].title) # "" => enrich.looked[i] = 1

\* C23: a lookup that fails or finds no candidate leaves the slot as the
\* input and stops neither its worker nor the others; when every lookup
\* returns, the call never raises and eventually resolves, every eligible
\* item having been looked up.
C23_FailuresStopNothing ==
  /\ [][\A w \in Workers : Resumes(w) /\ WithoutBest(w) => GoesOn(w)]_vars
  /\ [](enrich.status # "rejected")
  /\ Enriching ~> (Resolved /\ LookedUpWhereDue)

(***************************************************************************)
(* GET /api/recommend: the handler of the route, from the query parameters *)
(* to the response.  It awaits imdbSuggestSearch and enrichTitlesWithImdb; *)
(* loadMovies, searchMoviesByKeyword and getRecommendations of the CSV     *)
(* engine are synchronous.                                                 *)
(***************************************************************************)

\* The requests served in one behaviour
MaxRequests == 1

\* A query parameter that is present and not the empty string
truthy(param) == param # None /\ param[1] # ""

\* The digits of s from position i on, read in base 10 after acc
RECURSIVE digitsFrom(_, _, _)
digitsFrom(s, i, acc) ==
  IF i <= Len(s) /\ CharAt(s, i) \in DigitChars
  THEN digitsFrom(s, i + 1, 10 * acc + (CharCode[CharAt(s, i)] - 48))
  ELSE acc

\* parseInt(s, 10): white space, a sign, then the longest run of digits;
\* what follows the digits is ignored, and with no digit the result is NaN.
parseInt(s) ==
  LET from == firstNonSpace(s, 1)
      signed == from <= Len(s) /\ CharAt(s, from) \in {"+", "-"}
      first == IF signed THEN from + 1 ELSE from
  IN  IF first > Len(s) \/ CharAt(s, first) \notin DigitChars THEN NaN
      ELSE IF signed /\ CharAt(s, from) = "-" THEN 0 - digitsFrom(s, first, 0)
      ELSE digitsFrom(s, first, 0)

\* parseInt(searchParams.get('num') || '10', 10)
numRecsOf(num) == parseInt(IF truthy(num) THEN num[1] ELSE "10")

\* cleaned.split(','): the pieces of s from position i on, piece being the
\* one begun
RECURSIVE splitComma(_, _, _)
splitComma(s, i, piece) ==
  IF i > Len(s) THEN <<piece>>
  ELSE IF CharAt(s, i) = "," THEN <<piece>> \o splitComma(s, i + 1, "")
  ELSE splitComma(s, i + 1, piece \o CharAt(s, i))

\* x[0].toUpperCase() + x.slice(1)
capitalized(x) ==
  (IF CharAt(x, 1) \in LowerChars THEN CharOfCode(CharCode[CharAt(x, 1)] - 32)
   ELSE CharAt(x, 1)) \o SubSeq(x, 2, Len(x))

\* parseIndustriesParam(raw): no industry for an absent, blank or "all"
\* parameter, else the trimmed, non-empty, capitalized pieces
parseIndustriesParam(raw) ==
  IF ~truthy(raw) THEN <<>>
  ELSE LET cleaned == toLowerCase(trim(raw[1]))
           pieces == splitComma(cleaned, 1, "")
           kept == SelectSeq([k \in 1..Len(pieces) |-> trim(pieces[k])], LAMBDA x : x # "")
       IN  IF cleaned = "" \/ cleaned = "all" THEN <<>>
           ELSE [k \in 1..Len(kept) |-> capitalized(kept[k])]

\* imdbBest: the first result titled as the query, else the first whose
\* title contains it, else the first result; absent with no result
imdbBestOf(imdbResults, normalized) ==
  LET exact == FirstIndex([pos \in 1..Len(imdbResults) |->
                             normalizeTitle(imdbResults[pos].title) = normalized])
      partial == FirstIndex([pos \in 1..Len(imdbResults) |->
                               includes(normalizeTitle(imdbResults[pos].title), normalized)])
  IN  IF exact # 0 THEN Some(imdbResults[exact])
      ELSE IF partial # 0 THEN Some(imdbResults[partial])
      ELSE IF imdbResults # <<>> THEN Some(imdbResults[1])
      ELSE None

\* csvMatch: by the title of imdbBest (by the query without one), else by
\* the query
csvMatchOf(movies, imdbBest, rawQuery) ==
  LET first == findBestCsvMatch(movies, IF imdbBest # None /\ imdbBest[1].title # ""
                                        THEN imdbBest[1].title ELSE rawQuery)
  IN  IF first # 0 THEN first ELSE findBestCsvMatch(movies, rawQuery)

\* searchMoviesByKeyword(rawQuery, industries, limit) on the loaded movies:
\* the rows returned
keywordCandidatesOf(movies, rawQuery, industries, limit) ==
  IF toLowerCase(trim(rawQuery)) = "" \/ Len(movies) = 0 THEN <<>>
  ELSE keywordRanking(movies, toLowerCase(trim(rawQuery)), industries, limit).result

\* Math.max(1, Math.min(50, industriesParam ? 20 : numRecs))
wantTopNOf(industriesParam, numRecs) ==
  Math_max(1, Math_min(50, IF truthy(industriesParam) THEN 20 ELSE numRecs))

\* The branch the recommendations come from:
\* if (keywordCandidates.length > 0 && (!csvMatch || industriesParam)) ...
\* else if (csvMatch) ... else ...
strategyOf(candidates, csvMatch, industriesParam, industries) ==
  IF candidates # <<>> /\ (csvMatch = 0 \/ truthy(industriesParam)) THEN "keyword"
  ELSE IF csvMatch # 0 THEN "tfidf"
  ELSE "imdb"

\* A recommendation made of a movie of the CSV, and one made of an IMDb
\* result
ofMovie(movie) ==
  [title |-> movie.title, genre |-> movie.genre, imdbId |-> "", poster |-> "", imdbUrl |-> ""]

ofSummary(m) ==
  [title |-> m.title, genre |-> "", imdbId |-> m.imdbId, poster |-> m.poster,
   imdbUrl |-> m.imdbUrl]

\* getRecommendations(title, numRecommendations) of the CSV engine on the
\* loaded movies: raised, or the matrix and vocabulary it leaves and the
\* movies it returns
csvRecommendationsOf(movies, title, numRecommendations, matrix, vocab) ==
  LET inputMovie == csvFindMovieByTitle(movies, title)
      built == buildTfIdfMatrix(movies, matrix, vocab, csvCacheUsable(matrix, vocab))
      inputMovieIndex == csvFindInputMovieIndex(movies, inputMovie)
      ranked == sortByScore(csvSimilaritiesFrom(movies, built.matrix[1], inputMovieIndex, 1))
      top == sliceTo(ranked, numRecommendations)
  IN  IF Len(movies) = 0 \/ inputMovie = 0
      THEN [raised |-> TRUE, matrix |-> matrix, vocabulary |-> vocab, recs |-> <<>>]
      ELSE IF inputMovieIndex = 0 \/ ~IsArray(rowAt(built.matrix[1], inputMovieIndex))
      THEN [raised |-> TRUE, matrix |-> built.matrix, vocabulary |-> built.vocabulary,
            recs |-> <<>>]
      ELSE [raised |-> FALSE, matrix |-> built.matrix, vocabulary |-> built.vocabulary,
            recs |-> [k \in 1..Len(top) |-> ofMovie(movies[top[k].row])]]

\* The recommendations of the keyword branch and of the IMDb branch
keywordRecommendations(movies, candidates, wantTopN) ==
  LET top == sliceTo(candidates, wantTopN)
  IN  [k \in 1..Len(top) |-> ofMovie(movies[top[k].row])]

imdbRecommendations(imdbResults, searchedTitle, wantTopN) ==
  LET others == SelectSeq(imdbResults,
                          LAMBDA m : normalizeTitle(m.title) # normalizeTitle(searchedTitle))
      top == sliceTo(others, wantTopN)
  IN  [k \in 1..Len(top) |-> ofSummary(top[k])]

\* The response is sent.
responded(req, status) == [req EXCEPT !.pc = "responded", !.status = status]

\* The handler from its first statement to the first response or await:
\* 400 for a missing or blank title and for numRecs below 1 or above 50
\* (a comparison with NaN is false), else imdbSuggestSearch(normalized).
GET(title, num, industriesParam) ==
  /\ Quiet
  /\ request.pc \in {"idle", "responded"}
  /\ request.served < MaxRequests
  /\ \A w \in Workers : imdbCalls[w].pc = "idle" /\ enrich.pc[w] # "await"
  /\ \E numRecs \in { numRecsOf(num) } :
     \E req \in { [NoRequest EXCEPT !.title = title, !.num = num,
                                    !.industriesParam = industriesParam,
                                    !.numRecs = numRecs,
                                    !.industries = parseIndustriesParam(industriesParam),
                                    !.served = request.served + 1] } :
       IF ~truthy(title) \/ trim(title[1]) = ""
       THEN request' = responded(req, 400) /\ UNCHANGED imdbCalls
       ELSE IF numRecs # NaN /\ (numRecs < 1 \/ numRecs > 50)
       THEN request' = responded(req, 400) /\ UNCHANGED imdbCalls
       ELSE /\ request' = [req EXCEPT !.pc = "search"]
            /\ imdbCalls' = [imdbCalls EXCEPT
                               ![1] = searchStart(normalizeTitle(trim(title[1])),
                                                  imdbCache, now)]
  /\ enrich' = NoEnrichment
  /\ UNCHANGED imdbCache
  /\ UNCHANGED engineVars

\* The handler after `await imdbSuggestSearch(normalized)` up to the next
\* response or await; file is what the dataset file holds, read by
\* loadMovies only if no corpus is memorized yet.  Whatever is thrown is
\* caught and answered with 500.
HandlerResumes(file) ==
  /\ request.pc = "search"
  /\ imdbCalls[1].pc = "settled"
  /\ UNCHANGED << engine, now, cacheTimestamp, grokMoviesCache, grokTimestamp, calls,
                  returned, lastAppend, imdbCache >>
  /\ IF imdbCalls[1].raised \/ (moviesCache = 0 /\ file = None)
     THEN /\ request' = responded(request, 500)
          /\ imdbCalls' = [imdbCalls EXCEPT ![1] = NoLookup]
          /\ UNCHANGED << heap, moviesCache, tfidfMatrix, vocabulary, enrich >>
     ELSE \E h \in { IF moviesCache # 0 THEN heap ELSE <<csvToMovies(file[1])>> },
             rawQuery \in { trim(request.title[1]) } :
          \E imdbBest \in { imdbBestOf(imdbCalls[1].value, normalizeTitle(rawQuery)) },
             limit \in { Math_max(20, request.numRecs) } :
          \E csvMatch \in { csvMatchOf(h[1], imdbBest, rawQuery) },
             candidates \in { keywordCandidatesOf(h[1], rawQuery, request.industries, limit) },
             wantTopN \in { wantTopNOf(request.industriesParam, request.numRecs) } :
          \E strategy \in { strategyOf(candidates, csvMatch, request.industriesParam,
                                       request.industries) },
             searchedTitle \in { IF csvMatch # 0 THEN h[1][csvMatch].title
                                 ELSE IF imdbBest # None /\ imdbBest[1].title # ""
                                 THEN imdbBest[1].title ELSE rawQuery } :
          \E req \in { [request EXCEPT !.csvMatch = IF csvMatch = 0 THEN None
                                                    ELSE Some(h[1][csvMatch].title),
                                       !.candidates = Len(candidates),
                                       !.limit = Some(limit),
                                       !.searchedTitle = searchedTitle] },
             recommended \in { IF strategy = "tfidf"
                               THEN csvRecommendationsOf(h[1], h[1][csvMatch].title, wantTopN,
                                                         tfidfMatrix, vocabulary)
                               ELSE [raised |-> FALSE, matrix |-> tfidfMatrix,
                                     vocabulary |-> vocabulary,
                                     recs |-> IF strategy = "keyword"
                                              THEN keywordRecommendations(h[1], candidates,
                                                                          wantTopN)
                                              ELSE imdbRecommendations(imdbCalls[1].value,
                                                                       searchedTitle,
                                                                       wantTopN)] } :
            /\ heap' = h
            /\ moviesCache' = 1
            /\ IF imdbBest = None /\ csvMatch = 0 /\ candidates = <<>>
               THEN /\ request' = responded(req, 404)
                    /\ imdbCalls' = [imdbCalls EXCEPT ![1] = NoLookup]
                    /\ UNCHANGED << tfidfMatrix, vocabulary, enrich >>
               ELSE /\ tfidfMatrix' = recommended.matrix
                    /\ vocabulary' = recommended.vocabulary
                    /\ IF recommended.raised
                       THEN /\ request' = responded([req EXCEPT !.strategy = strategy,
                                                                !.topN = Some(wantTopN)], 500)
                            /\ imdbCalls' = [imdbCalls EXCEPT ![1] = NoLookup]
                            /\ UNCHANGED enrich
                       ELSE \E started \in { settle(startWorkers(
                                               newEnrichment("enrichTitlesWithImdb",
                                                             recommended.recs),
                                               1, Math_min(5, MaxWorkers))) } :
                              /\ request' = [req EXCEPT !.pc = "enrich",
                                                        !.strategy = strategy,
                                                        !.topN = Some(wantTopN),
                                                        !.recommendations = recommended.recs]
                              /\ enrich' = started
                              /\ imdbCalls' = searchesOf(started, imdbCache, now)

\* The handler after `await enrichTitlesWithImdb(recommendations, 5)`: 500
\* when it or buildMovieBoxLink threw, else 200 with the enriched list.
HandlerResponds ==
  /\ request.pc = "enrich"
  /\ enrich.status \in {"resolved", "rejected"}
  /\ request' = IF enrich.status = "rejected"
                     \/ encodeURIComponent(request.searchedTitle) = None
                THEN responded(request, 500)
                ELSE responded([request EXCEPT !.recommendations = enrich.out], 200)
  /\ UNCHANGED << imdbCache, imdbCalls, enrich >>
  /\ UNCHANGED engineVars

\* The query parameters of a request: absent, or a string
HandlerTitles ==
  { None, Some("  "), Some("Heat"), Some(" inception"), Some("love"), Some("xyz"),
    Some(ClapperBoard \o " Heat") }

HandlerNums == { None, Some("abc"), Some("2abc"), Some("0"), Some("51"), Some("1"), Some("50") }

HandlerIndustries == { None, Some("all"), Some(" Hollywood, ,bollywood") }

\* What the dataset file holds
HandlerFiles == { None, Some(<<>>), Some(CsvDataset) }

\* How the HTTP call of a lookup ends
HandlerOutcomes ==
  { outcome \in HttpOutcomes :
      \/ outcome.kind = "networkError"
      \/ outcome.d \in { Some(<<>>), Some(<<Film>>) } }

HandlerInit == KeywordInit

HandlerNext ==
  \/ \E title \in HandlerTitles, num \in HandlerNums, industriesParam \in HandlerIndustries :
       GET(title, num, industriesParam)
  \/ \E file \in HandlerFiles : HandlerResumes(file)
  \/ HandlerResponds
  \/ \E w \in Workers :
       \/ \E outcome \in HandlerOutcomes : HttpReturns(w, outcome)
       \/ WorkerResumes(w)

SpecHandler == HandlerInit /\ [][HandlerNext]_vars

(***************************************************************************)
(* C25, C27: the validation of num and the choice of the strategy          *)
(***************************************************************************)

\* The text of an integer in 1..50
IntegerIn1To50(s) ==
  /\ s # ""
  /\ \A i \in 1..Len(s) : CharAt(s, i) \in DigitChars
  /\ parseInt(s) \in 1..50

\* A request has been received; the handler has chosen where the
\* recommendations come from.
Received == request.pc # "idle"
Routed == request.strategy # ""

\* C25: a request whose num is given and is not an integer in 1..50 is
\* answered with 400 and nothing is recommended for it, and wantTopN,
\* wherever it is passed on or cuts a list, is an integer in 1..50.
C25_NumOutside1To50Is400 ==
  /\ Received /\ request.num # None /\ ~IntegerIn1To50(request.num[1])
       => request.pc = "responded" /\ request.status = 400 /\ ~Routed
  /\ request.topN # None => request.topN[1] \in 1..50

\* The title of the request is the title, or a part of the title, of a
\* movie of the loaded CSV corpus.
TitleInCsv ==
  /\ truthy(request.title)
  /\ moviesCache # 0
  /\ findBestCsvMatch(heap[moviesCache], trim(request.title[1])) # 0

\* C27: with a title match in the CSV and no industry selected (the
\* parameter absent or "all") the recommendations are those of the TF-IDF
\* recommender; the keyword search gives them only without a CSV match or
\* with industries selected, the IMDb suggestions only without a CSV match
\* and without keyword candidates.
C27_TfIdfUnlessKeywordOrIndustries ==
  Routed =>
    /\ TitleInCsv /\ request.industries = <<>> => request.strategy = "tfidf"
    /\ request.strategy = "keyword" => request.csvMatch = None \/ request.industries # <<>>
    /\ request.strategy = "imdb" => request.csvMatch = None /\ request.candidates = 0

====
